---- MODULE Spec2Model ----
(***************************************************************************)
(* A model of the retrieval-and-ranking core of the repository:            *)
(*   group_1/retrieval.py  find_top_matches, group_and_rank_profiles,      *)
(*                         generate_explanations, display_results          *)
(*   group_1/indexing.py   create_faiss_vector_store                       *)
(*   group_3/vector_db.py  preprocess_text, create_incident_document       *)
(*                                                                         *)
(* Strings are sequences of one-character strings.  Distances are integers *)
(* on a grid of 1/DScale, and match_score_percent is an integer number of  *)
(* hundredths of a percent (the code rounds to two decimals).              *)
(***************************************************************************)
EXTENDS Integers, Sequences, FiniteSets, TLC

VARIABLES
    pc,                \* position in the flow being run
    raised,            \* the exception that escaped, or NoError
    retrieved_chunks,  \* retrieval.py: the (Document, score) list
    ranked_profiles,   \* retrieval.py: the list group_and_rank_profiles returns
    displayed,         \* retrieval.py: what display_results printed
    listed,            \* indexing.py: the entries of acad_profiles_dir iterated
    member_dir,        \* indexing.py: the entry of the last iteration
    member_files,      \* indexing.py: os.listdir(member_path), with contents
    full_profile_text, \* indexing.py: the text of the last iteration
    profile_texts,     \* history: per directory iterated, <<its full_profile_text>>
    all_documents,     \* indexing.py: the chunks collected
    vector_store,      \* indexing.py: the FAISS store in memory, or NoStore
    saved_index,       \* indexing.py: the store saved at save_path, or NoStore
    incident,          \* vector_db.py: the row given to create_incident_document
    document,          \* vector_db.py: <<the document it returned>>, or <<>>
    table,             \* vector_db.py: the collection being built, or None
    columns,           \* vector_db.py: the columns of the CSV file read
    df,                \* vector_db.py: the rows pd.read_csv returned
    idx,               \* vector_db.py: the number of rows iterated
    documents,         \* vector_db.py: the documents list of the loop
    metadatas,         \* vector_db.py: the metadatas list of the loop
    ids,               \* vector_db.py: the ids list of the loop
    collection,        \* vector_db.py: what the collection holds
    config,            \* indexing.py: the chunk_size and chunk_overlap of line 71
    text_splitter,     \* indexing.py: <<the splitter constructed>>, or <<>>
    faiss_db,          \* retrieval.py: <<what load_faiss_vector_store returned>>
    query,             \* retrieval.py: the last query, and what the index gave
    model_loads,       \* history: embedding models constructed by the process
    messages,          \* utils.py: state["messages"], the conversation
    incidents,         \* utils.py: what get_similar_tickets returned last
    returned,          \* utils.py: what pipeline returned last
    embedding_failed,  \* history: positions of the chunks whose embedding raised
    builder,           \* vector_db.py: db_path and embedding_model of the builder
    csv_args,          \* vector_db.py: which optional CSV files were given
    collections,       \* vector_db.py: the dict of build_complete_database
    client,            \* vector_db.py: what the database holds, per table
    db_info,           \* vector_db.py: <<database_info.json as written>>
    clock,             \* history: the steps build_complete_database has taken
    similar_tickets,   \* analyser.py: what get_similar_tickets returned
    claude_response,   \* analyser.py: <<what call_claude returned>>
    api_failed,        \* history: whether the API call of call_claude raised
    analysis,          \* analyser.py: <<the TicketAnalysis returned>>
    llm,               \* retrieval.py: <<the ChatAnthropic object>>
    steps              \* history: the steps of retrieval.py that have run

rankVars == <<retrieved_chunks, ranked_profiles, displayed>>

indexVars ==
    <<listed, member_dir, member_files, full_profile_text, profile_texts,
      all_documents, vector_store, saved_index>>

incidentVars == <<incident, document>>

tableVars == <<table, columns, df, idx, documents, metadatas, ids, collection>>

splitterVars == <<config, text_splitter>>

processVars == <<model_loads, messages, incidents, returned>>

embedVars == <<embedding_failed>>

databaseVars == <<builder, csv_args, collections, client, db_info, clock>>

analyserVars == <<similar_tickets, claude_response, api_failed, analysis>>

mainVars == <<llm, steps>>

loadVars == <<faiss_db, query>>

vars ==
    <<pc, raised, rankVars, indexVars, incidentVars, tableVars, splitterVars,
      loadVars, processVars, embedVars, databaseVars, analyserVars,
      mainVars>>

----------------------------------------------------------------------------
(* Bounds of the model *)

\* distances lie on a grid of 1/DScale: the score q stands for q / DScale
DScale == 4
\* the largest distance of the model, in grid units (above DScale: FAISS'
\* default metric is the squared L2 distance, which exceeds 1)
MaxDistQ == 5
\* the longest retrieved list
MaxChunks == 3
\* indexing.py line 71, chunk_size=1000 and chunk_overlap=200, scaled down
\* in the ratio 5 : 1
ChunkSize == 5
ChunkOverlap == 1

----------------------------------------------------------------------------
(* Values *)

NoError == "NoError"
\* doc.metadata.get("member_name") of a chunk without the key
None == "None"
\* the entity names of the corpus
Members == {"alice", "bob"}
\* what metadata.get("member_name") can give: a name, the empty string, None
NameValues == Members \cup {"", None}
\* the explanation key of a profile before generate_explanations sets it
NoKey == "NoKey"

\* a retrieved (Document, score) pair; page_content is a document number
ChunkOf(name, content, q) ==
    [member_name |-> name, page_content |-> content, score |-> q]

----------------------------------------------------------------------------
(* retrieval.py: group_and_rank_profiles *)

\* line 75 written "if member_name is not None:"
HasMemberNameNotNone(name) == name # None

\* line 75 left out: every chunk is grouped under what .get gave
HasMemberNameAlways(name) == TRUE

\* line 75, "if member_name:": None and the empty string are falsy
HasMemberName(name) == name \notin {"", None}

\* lines 69-71, the defaultdict's factory; key is the dict key of the entry
DefaultGroup(name) ==
    [key |-> name, total_score |-> 0, chunk_count |-> 0, chunks |-> <<>>]

\* line 77 with the distance added instead of the similarity 1 - score
AccumulateDistance(g, c) ==
    [g EXCEPT !.total_score = @ + c.score,
              !.chunk_count = @ + 1,
              !.chunks = Append(@, c.page_content)]

\* lines 77-79; 1 - score is DScale - q on the grid
Accumulate(g, c) ==
    [g EXCEPT !.total_score = @ + (DScale - c.score),
              !.chunk_count = @ + 1,
              !.chunks = Append(@, c.page_content)]

\* member_scores is a dict in insertion order: a sequence of entries
HasKey(ms, name) == \E i \in 1..Len(ms) : ms[i].key = name

\* one iteration that makes a new entry for every chunk with a name
GroupStepAlwaysNew(ms, c) ==
    IF ~HasMemberName(c.member_name) THEN ms
    ELSE Append(ms, Accumulate(DefaultGroup(c.member_name), c))

\* lines 73-79, one iteration of the loop
GroupStep(ms, c) ==
    IF ~HasMemberName(c.member_name) THEN ms
    ELSE IF HasKey(ms, c.member_name)
         THEN [i \in 1..Len(ms) |->
                  IF ms[i].key = c.member_name THEN Accumulate(ms[i], c)
                  ELSE ms[i]]
         ELSE Append(ms, Accumulate(DefaultGroup(c.member_name), c))

RECURSIVE GroupLoop(_, _)
\* lines 73-79, the loop over the chunks still to come
GroupLoop(ms, chunks) ==
    IF chunks = <<>> THEN ms
    ELSE GroupLoop(GroupStep(ms, Head(chunks)), Tail(chunks))

\* n / d rounded down to an integer
RoundDown(n, d) == n \div d

\* n / d rounded to the nearest integer, a tie going to the even one: what
\* Python's round() gives for the exact quotient
RoundHalfEven(n, d) ==
    LET fl == n \div d
        r == n - fl * d
    IN  IF 2 * r < d THEN fl
        ELSE IF 2 * r > d THEN fl + 1
        ELSE IF fl % 2 = 0 THEN fl ELSE fl + 1

\* lines 83-88 with the percentage cut off after two decimals
MatchScoreTruncated(total, count) ==
    RoundDown(total * 10000, DScale * count)

\* lines 83-88: round(total_score / chunk_count * 100, 2), in hundredths of
\* a percent; total is in grid units
MatchScorePercent(total, count) ==
    RoundHalfEven(total * 10000, DScale * count)

\* lines 82-89: the entry as a profile; explanation is not a key yet
ProfileOf(g) ==
    [member_name |-> g.key,
     total_score |-> g.total_score,
     chunk_count |-> g.chunk_count,
     chunks |-> g.chunks,
     match_score_percent |-> MatchScorePercent(g.total_score, g.chunk_count),
     explanation |-> NoKey]

RECURSIVE InsertAscending(_, _)
\* the insertion of a sort without reverse=True
InsertAscending(s, x) ==
    IF s = <<>> THEN <<x>>
    ELSE IF Head(s).match_score_percent <= x.match_score_percent
         THEN <<Head(s)>> \o InsertAscending(Tail(s), x)
         ELSE <<x>> \o s

RECURSIVE InsertUnstable(_, _)
\* the insertion of a descending sort that puts x before its equals
InsertUnstable(s, x) ==
    IF s = <<>> THEN <<x>>
    ELSE IF Head(s).match_score_percent > x.match_score_percent
         THEN <<Head(s)>> \o InsertUnstable(Tail(s), x)
         ELSE <<x>> \o s

RECURSIVE InsertDescending(_, _)
\* lines 92-94: sorted(..., reverse=True) is stable, so x goes behind every
\* element whose key is not smaller
InsertDescending(s, x) ==
    IF s = <<>> THEN <<x>>
    ELSE IF Head(s).match_score_percent >= x.match_score_percent
         THEN <<Head(s)>> \o InsertDescending(Tail(s), x)
         ELSE <<x>> \o s

\* no sort: the profiles in the reverse of the dict's order
SortProfilesLastFirst(sorted, rest) ==
    sorted \o [i \in 1..Len(rest) |-> rest[Len(rest) + 1 - i]]

RECURSIVE SortProfiles(_, _)
\* lines 92-94: the sort, as insertions into the sorted prefix
SortProfiles(sorted, rest) ==
    IF rest = <<>> THEN sorted
    ELSE SortProfiles(InsertDescending(sorted, Head(rest)), Tail(rest))

\* member_scores after the loop of lines 73-79
MemberScores(chunks) == GroupLoop(<<>>, chunks)

\* lines 59-96
GroupAndRankProfiles(chunks) ==
    LET ms == MemberScores(chunks)
    IN  SortProfiles(<<>>, [i \in 1..Len(ms) |-> ProfileOf(ms[i])])

----------------------------------------------------------------------------
(* retrieval.py: generate_explanations, display_results *)

\* display_results shows, and the main flow explains, the first TopN
TopN == 10

\* lines 150 and 193: s[:n]
Take(s, n) == IF Len(s) <= n THEN s ELSE SubSeq(s, 1, n)

\* lines 131-143 setting the key of the first profile only
WithExplanationsOnFirst(profiles, n) ==
    [i \in 1..Len(profiles) |->
        IF i <= n /\ i = 1 THEN [profiles[i] EXCEPT !.explanation = "text"]
        ELSE profiles[i]]

\* lines 131-143: the dicts of ranked_profiles[:10] are the dicts of
\* ranked_profiles, so setting the key shows in ranked_profiles
WithExplanations(profiles, n) ==
    [i \in 1..Len(profiles) |->
        IF i <= n THEN [profiles[i] EXCEPT !.explanation = "text"]
        ELSE profiles[i]]

\* lines 157-158: DataFrame(top_10) has a column for every key of any row,
\* and selecting a column that is not there raises KeyError
HasExplanationColumn(top) ==
    \E i \in 1..Len(top) : top[i].explanation # NoKey

\* lines 158-162: the rows of the printed table
TableOf(top) ==
    [i \in 1..Len(top) |->
        <<top[i].member_name, top[i].match_score_percent, top[i].explanation>>]

----------------------------------------------------------------------------
(* The ranking flow: group_and_rank_profiles on any retrieved list, then   *)
(* generate_explanations and display_results as the main flow calls them   *)

\* indexing.py line 80: the model that makes the vectors of the store
IndexingModelName == "all-MiniLM-L6-v2"

\* another sentence-transformers model
OtherModelName == "all-mpnet-base-v2"

\* retrieval.py line 25: the model queries of the loaded store are embedded
\* with
LoadingModelName == "all-MiniLM-L6-v2"

\* a FAISS store: its documents in the order of their vectors, the model
\* that made the vectors, and the model of its embeddings object, which
\* embeds the queries; NoStore where there is none
NoStore ==
    [exists |-> FALSE, docs |-> <<>>, indexed_with |-> None,
     embeddings |-> None]

\* indexing.py line 84, FAISS.from_documents(docs, embeddings)
StoreOf(docs) ==
    [exists |-> TRUE, docs |-> docs, indexed_with |-> IndexingModelName,
     embeddings |-> IndexingModelName]

\* the id FAISS.from_documents gives the document at position i of the
\* index (a uuid4 string)
DocId(i) == <<"uuid", i>>

\* the folder at save_path before anything is saved in it
NoSnapshot ==
    [exists |-> FALSE,
     index_faiss |-> [ntotal |-> 0, indexed_with |-> None],
     index_pkl |-> [docstore |-> {}, index_to_docstore_id |-> <<>>]]

\* indexing.py line 85, save_local: index.faiss holds the vectors in the
\* order of the index, index.pkl the pickled docstore (the documents by
\* id) and index_to_docstore_id (the id at each position); the embeddings
\* object is not written
SaveLocal(store) ==
    [exists |-> TRUE,
     index_faiss |->
         [ntotal |-> Len(store.docs), indexed_with |-> store.indexed_with],
     index_pkl |->
         [docstore |->
              {[id |-> DocId(i), document |-> store.docs[i]] :
                  i \in 1..Len(store.docs)},
          index_to_docstore_id |->
              [i \in 1..Len(store.docs) |-> DocId(i)]]]

\* the documents read back against the order of the positions
DocsOfSnapshotBackwards(snapshot) ==
    [i \in 1..snapshot.index_faiss.ntotal |->
        LET entry == CHOOSE e \in snapshot.index_pkl.docstore :
                         e.id = snapshot.index_pkl.index_to_docstore_id[
                                    snapshot.index_faiss.ntotal + 1 - i]
        IN  entry.document]

\* docstore.search(index_to_docstore_id[i]) for every position i of the
\* index read from index.faiss
DocsOfSnapshot(snapshot) ==
    [i \in 1..snapshot.index_faiss.ntotal |->
        LET entry == CHOOSE e \in snapshot.index_pkl.docstore :
                         e.id = snapshot.index_pkl.index_to_docstore_id[i]
        IN  entry.document]

\* retrieval.py lines 26-28, FAISS.load_local(save_path, embeddings): the
\* index is read from index.faiss, the docstore and the ids from
\* index.pkl, and the store is made of them and the embeddings object given
LoadLocal(snapshot, embeddings) ==
    [exists |-> TRUE,
     docs |-> DocsOfSnapshot(snapshot),
     indexed_with |-> snapshot.index_faiss.indexed_with,
     embeddings |-> embeddings]

\* the indexing state of a process that does not index
IndexIdle ==
    /\ listed = {}
    /\ member_dir = None
    /\ member_files = <<>>
    /\ full_profile_text = <<>>
    /\ profile_texts = [m \in Members |-> <<>>]
    /\ all_documents = <<>>
    /\ vector_store = NoStore
    /\ saved_index = NoSnapshot

\* a value of a row: a key that is absent, a missing value (NaN), a string
Absent == [kind |-> "absent", text |-> <<>>]
NaN == [kind |-> "nan", text |-> <<>>]
Str(t) == [kind |-> "str", text |-> t]

\* the keys create_incident_document reads, in the order it reads them
TextFields ==
    <<"briefDescription", "incidentBody", "request",
      "category", "subcategory", "softwareRequired",
      "callerDepartment", "researchDiscipline">>

\* the state of a process that builds no incident document
IncidentIdle ==
    /\ incident = [f \in {TextFields[i] : i \in 1..Len(TextFields)} |-> Absent]
    /\ document = <<>>

\* a collection: whether it was created, and what was added to it
NoCollection ==
    [exists |-> FALSE, documents |-> <<>>, metadatas |-> <<>>, ids |-> <<>>]

\* the state of a process that builds no collection
TableIdle ==
    /\ table = None
    /\ columns = {}
    /\ df = <<>>
    /\ idx = 0
    /\ documents = <<>>
    /\ metadatas = <<>>
    /\ ids = <<>>
    /\ collection = NoCollection

\* line 71 as written: chunk_size and chunk_overlap, on the model's scale
Configured == [chunk_size |-> ChunkSize, chunk_overlap |-> ChunkOverlap]

\* the splitter state of a process before it constructs a splitter
SplitterIdle ==
    /\ config = Configured
    /\ text_splitter = <<>>

\* no query was made
NoQuery == [k |-> 0, distances |-> <<>>]

\* the state of a process that has loaded nothing and asked nothing
LoadIdle ==
    /\ faiss_db = <<>>
    /\ query = NoQuery

\* a process that has constructed no embedding model and had no conversation
ProcessIdle ==
    /\ model_loads = 0
    /\ messages = <<>>
    /\ incidents = <<>>
    /\ returned = <<>>

\* a process in which no embedding call has raised
EmbedIdle == embedding_failed = {}

\* a process that does not run build_complete_database
DatabaseIdle ==
    /\ builder = None
    /\ csv_args = {}
    /\ collections = <<>>
    /\ client = <<>>
    /\ db_info = <<>>
    /\ clock = 0

\* a process that analyses no ticket
AnalyserIdle ==
    /\ similar_tickets = <<>>
    /\ claude_response = <<>>
    /\ api_failed = FALSE
    /\ analysis = <<>>

\* retrieval.py: the main flow has not started
MainIdle ==
    /\ llm = <<>>
    /\ steps = <<>>

RankInit ==
    /\ pc = "retrieve"
    /\ raised = NoError
    /\ retrieved_chunks = <<>>
    /\ ranked_profiles = <<>>
    /\ displayed = <<>>
    /\ IndexIdle
    /\ IncidentIdle
    /\ TableIdle
    /\ SplitterIdle
    /\ LoadIdle
    /\ ProcessIdle
    /\ EmbedIdle
    /\ DatabaseIdle
    /\ AnalyserIdle
    /\ llm = <<"ChatAnthropic">>
    /\ steps = <<>>

\* retrieval.py line 55: the index hands over its next (Document, score)
\* pair, any chunk at any distance; document i of the list has
\* page_content i
RetrieveChunk ==
    /\ pc = "retrieve"
    /\ Len(retrieved_chunks) < MaxChunks
    /\ \E name \in NameValues, q \in 0..MaxDistQ :
          retrieved_chunks' =
              Append(retrieved_chunks,
                     ChunkOf(name, Len(retrieved_chunks) + 1, q))
    /\ UNCHANGED <<pc, raised, ranked_profiles, displayed, indexVars,
                   incidentVars, splitterVars, loadVars, tableVars,
                   processVars, embedVars, databaseVars, analyserVars,
                   mainVars>>

\* retrieval.py line 180
GroupAndRank ==
    /\ pc = "retrieve"
    /\ ranked_profiles' = GroupAndRankProfiles(retrieved_chunks)
    /\ pc' = "explain"
    /\ steps' = Append(steps, "rank")
    /\ UNCHANGED <<raised, retrieved_chunks, displayed, indexVars,
                   incidentVars, splitterVars, loadVars, tableVars,
                   processVars, embedVars, databaseVars, analyserVars,
                   llm>>

\* retrieval.py line 193, every llm_chain.invoke returning
GenerateExplanations ==
    /\ pc = "explain"
    /\ llm # <<>>
    /\ ranked_profiles' = WithExplanations(ranked_profiles, TopN)
    /\ pc' = "display"
    /\ steps' = Append(steps, "explanation")
    /\ UNCHANGED <<raised, retrieved_chunks, displayed, indexVars,
                   incidentVars, splitterVars, loadVars, tableVars,
                   processVars, embedVars, databaseVars, analyserVars,
                   llm>>

\* retrieval.py line 193, the llm_chain.invoke for profile n raising: the
\* profiles before it have their explanation, and the exception escapes
GenerateExplanationsFails ==
    /\ pc = "explain"
    /\ llm # <<>>
    /\ \E n \in 1..Len(Take(ranked_profiles, TopN)) :
          ranked_profiles' = WithExplanations(ranked_profiles, n - 1)
    /\ raised' = "LLMError"
    /\ pc' = "failed"
    /\ steps' = Append(steps, "explanation")
    /\ UNCHANGED <<retrieved_chunks, displayed, indexVars, incidentVars,
                   splitterVars, loadVars, tableVars, processVars, embedVars,
                   databaseVars, analyserVars, llm>>

\* retrieval.py lines 146-162
DisplayResults ==
    /\ pc = "display"
    /\ LET top_10 == Take(ranked_profiles, TopN)
       IN  IF top_10 = <<>>
           THEN /\ displayed' = <<"No matches found for the given prompt.">>
                /\ pc' = "done"
                /\ raised' = raised
           ELSE IF HasExplanationColumn(top_10)
           THEN /\ displayed' = TableOf(top_10)
                /\ pc' = "done"
                /\ raised' = raised
           ELSE /\ displayed' = displayed
                /\ pc' = "failed"
                /\ raised' = "KeyError"
    /\ steps' = Append(steps, "display")
    /\ UNCHANGED <<retrieved_chunks, ranked_profiles, indexVars,
                   incidentVars, splitterVars, loadVars, tableVars,
                   processVars, embedVars, databaseVars, analyserVars,
                   llm>>

RankNext ==
    \/ RetrieveChunk
    \/ GroupAndRank
    \/ GenerateExplanations
    \/ GenerateExplanationsFails
    \/ DisplayResults

SpecRank == RankInit /\ [][RankNext]_vars

\* group_and_rank_profiles alone, on any retrieved list
GroupNext ==
    \/ RetrieveChunk
    \/ GroupAndRank

SpecGroup == RankInit /\ [][GroupNext]_vars

----------------------------------------------------------------------------
(* Claims about group_and_rank_profiles and display_results (SpecRank) *)

\* group_and_rank_profiles has returned
Ranked == pc \in {"explain", "display", "done", "failed"}

\* the positions of the retrieved chunks of entity name
ChunksOfMember(name) ==
    {i \in 1..Len(retrieved_chunks) : retrieved_chunks[i].member_name = name}

\* the position at which entity name is first seen in the retrieved list
FirstSeen(name) ==
    CHOOSE i \in ChunksOfMember(name) : \A j \in ChunksOfMember(name) : i <= j

RECURSIVE SumSimilarity(_)
\* the sum of 1 - d over the chunks at the positions I, in grid units
SumSimilarity(I) ==
    IF I = {} THEN 0
    ELSE LET i == CHOOSE x \in I : TRUE
         IN  (DScale - retrieved_chunks[i].score) + SumSimilarity(I \ {i})

\* h is n / d rounded to the nearest integer, ties to even
IsRounded(h, n, d) ==
    LET twice == IF h * d >= n THEN 2 * (h * d - n) ELSE 2 * (n - h * d)
    IN  twice < d \/ (twice = d /\ h % 2 = 0)

\* C1: the list group_and_rank_profiles returns is in non-increasing order
\* of match_score_percent, and every entity in it has at least one
\* contributing chunk among the retrieved chunks
C1_SortedAndContributing ==
    Ranked =>
        /\ \A i \in 1..Len(ranked_profiles) - 1 :
              ranked_profiles[i].match_score_percent
                  >= ranked_profiles[i + 1].match_score_percent
        /\ \A i \in 1..Len(ranked_profiles) :
              /\ ChunksOfMember(ranked_profiles[i].member_name) # {}
              /\ ranked_profiles[i].chunk_count >= 1
              /\ Len(ranked_profiles[i].chunks) >= 1

\* C1 witness: two entities ranked, the one seen second strictly above the
\* one seen first
C1_Witness ==
    /\ pc = "explain"
    /\ Len(ranked_profiles) = 2
    /\ ranked_profiles[1].match_score_percent
           > ranked_profiles[2].match_score_percent
    /\ FirstSeen(ranked_profiles[2].member_name)
           < FirstSeen(ranked_profiles[1].member_name)

\* C2: the match_score_percent of every entity in the output is
\* round(100 * mean(1 - d), 2) over exactly the distances of that entity's
\* retrieved chunks
C2_ScoreIsRoundedMean ==
    Ranked =>
        \A i \in 1..Len(ranked_profiles) :
            LET I == ChunksOfMember(ranked_profiles[i].member_name)
            IN  /\ ranked_profiles[i].chunk_count = Cardinality(I)
                /\ IsRounded(ranked_profiles[i].match_score_percent,
                             10000 * SumSimilarity(I),
                             DScale * Cardinality(I))

\* C2 witness: an entity with three chunks whose mean is not a whole number
\* of hundredths, so that the rounding decides the score
C2_Witness ==
    /\ pc = "explain"
    /\ \E i \in 1..Len(ranked_profiles) :
          LET I == ChunksOfMember(ranked_profiles[i].member_name)
          IN  /\ Cardinality(I) = 3
              /\ (10000 * SumSimilarity(I)) % (DScale * 3) # 0

\* C3: two entities of equal match_score_percent are in the output in the
\* order in which their first chunks were retrieved
C3_StableByFirstSeen ==
    Ranked =>
        \A i, j \in 1..Len(ranked_profiles) :
            (/\ i < j
             /\ ranked_profiles[i].match_score_percent
                    = ranked_profiles[j].match_score_percent)
            => FirstSeen(ranked_profiles[i].member_name)
                   < FirstSeen(ranked_profiles[j].member_name)

\* C3 witness: two entities of equal score with different numbers of chunks
C3_Witness ==
    /\ pc = "explain"
    /\ Len(ranked_profiles) = 2
    /\ ranked_profiles[1].match_score_percent
           = ranked_profiles[2].match_score_percent
    /\ ranked_profiles[1].chunk_count # ranked_profiles[2].chunk_count

\* C4: every profile has match_score_percent within 0 to 100 inclusive
\* (0 to 10000 hundredths), whatever distances the index returns
C4_ScoreWithinPercentRange ==
    Ranked =>
        \A i \in 1..Len(ranked_profiles) :
            /\ ranked_profiles[i].match_score_percent >= 0
            /\ ranked_profiles[i].match_score_percent <= 10000

\* C5: an entity whose retrieved chunks are all at distance 1 has
\* match_score_percent exactly 0
C5_MaxDistanceScoresZero ==
    Ranked =>
        \A i \in 1..Len(ranked_profiles) :
            (\A k \in ChunksOfMember(ranked_profiles[i].member_name) :
                retrieved_chunks[k].score = DScale)
            => ranked_profiles[i].match_score_percent = 0

\* C5 witness: a ranked entity with two or more chunks, all at distance 1
C5_Witness ==
    /\ pc = "explain"
    /\ \E i \in 1..Len(ranked_profiles) :
          LET I == ChunksOfMember(ranked_profiles[i].member_name)
          IN  /\ Cardinality(I) >= 2
              /\ \A k \in I : retrieved_chunks[k].score = DScale

\* no retrieved chunk carries an entity id
NoEntityRetrieved ==
    \A i \in 1..Len(retrieved_chunks) :
        retrieved_chunks[i].member_name \in {"", None}

\* C6: when no retrieved chunk carries an entity id (the empty list
\* included), group_and_rank_profiles returns the empty list and neither
\* it nor display_results raises; display_results prints its no-match line
C6_NoMatchIsNotAnError ==
    NoEntityRetrieved =>
        /\ raised = NoError
        /\ pc # "failed"
        /\ ranked_profiles = <<>>
        /\ pc = "done" =>
              displayed = <<"No matches found for the given prompt.">>

\* C6 witness: display_results has returned for a retrieved list that is
\* not empty and holds a chunk with no member_name and one with an empty one
C6_Witness ==
    /\ pc = "done"
    /\ raised = NoError
    /\ NoEntityRetrieved
    /\ \E i, j \in 1..Len(retrieved_chunks) :
          /\ retrieved_chunks[i].member_name = None
          /\ retrieved_chunks[j].member_name = ""

\* the positions of the retrieved chunks whose member_name is name
PositionsOf(name) ==
    SelectSeq([i \in 1..Len(retrieved_chunks) |-> i],
              LAMBDA i : retrieved_chunks[i].member_name = name)

\* the positions of the retrieved chunks that carry an entity id
Carrying ==
    {i \in 1..Len(retrieved_chunks) :
        retrieved_chunks[i].member_name \in Members}

RECURSIVE SumOfCounts(_)
\* the chunk counts of the profiles, added up
SumOfCounts(profiles) ==
    IF profiles = <<>> THEN 0
    ELSE Head(profiles).chunk_count + SumOfCounts(Tail(profiles))

\* C26: group_and_rank_profiles groups the matches by entity: every
\* retrieved chunk that carries an entity id is counted in exactly one
\* group, the group of its own entity; each group's chunk list holds that
\* entity's chunk texts in retrieval order; and the chunk counts of all
\* groups sum to the number of retrieved chunks that carry an entity id.
C26_GroupedByEntity ==
    pc # "retrieve" =>
        /\ \A i \in Carrying :
              Cardinality({n \in 1..Len(ranked_profiles) :
                  ranked_profiles[n].member_name =
                      retrieved_chunks[i].member_name}) = 1
        /\ \A n \in 1..Len(ranked_profiles) :
              LET p == ranked_profiles[n]
                  at == PositionsOf(p.member_name)
              IN  /\ p.member_name \in Members
                  /\ p.chunks =
                         [k \in 1..Len(at) |->
                             retrieved_chunks[at[k]].page_content]
                  /\ p.chunk_count = Len(at)
        /\ SumOfCounts(ranked_profiles) = Cardinality(Carrying)

\* three chunks were grouped: two of one entity with a chunk of the other
\* between them
C26_Witness ==
    /\ pc = "explain"
    /\ Len(retrieved_chunks) = 3
    /\ retrieved_chunks[1].member_name = "bob"
    /\ retrieved_chunks[2].member_name = "alice"
    /\ retrieved_chunks[3].member_name = "bob"
    /\ Len(ranked_profiles) = 2
    /\ \E n \in 1..2 : ranked_profiles[n].chunks = <<1, 3>>

\* the retrieved chunks that have a member_name, in order
NamedChunks ==
    SelectSeq(retrieved_chunks, LAMBDA c : c.member_name \notin {"", None})

\* C27: in group_and_rank_profiles a retrieved chunk whose metadata has no
\* member_name (absent or empty) is ignored entirely: the ranking is the
\* ranking of the other chunks alone; and every group that exists has
\* chunk_count >= 1 when the average is computed, so the division by
\* chunk_count is never a division by zero.
C27_NamelessIgnoredNoZeroCount ==
    Ranked =>
        /\ \A n \in 1..Len(ranked_profiles) :
              /\ ranked_profiles[n].chunk_count >= 1
              /\ ranked_profiles[n].member_name \notin {"", None}
        /\ pc = "explain" =>
               ranked_profiles = GroupAndRankProfiles(NamedChunks)
        /\ raised # "ZeroDivisionError"

\* a list with a chunk without member_name, one with an empty member_name
\* and one of alice was ranked: alice's is the one group
C27_Witness ==
    /\ pc = "explain"
    /\ Len(retrieved_chunks) = 3
    /\ retrieved_chunks[1].member_name = None
    /\ retrieved_chunks[2].member_name = "alice"
    /\ retrieved_chunks[3].member_name = ""
    /\ Len(ranked_profiles) = 1
    /\ ranked_profiles[1].chunk_count = 1

----------------------------------------------------------------------------
(* Text: a string is a sequence of one-character strings *)

\* the whitespace characters of the model's alphabet
Whitespace == {" ", "\n", "\t"}

RECURSIVE LStrip(_)
\* str.lstrip()
LStrip(s) ==
    IF s # <<>> /\ Head(s) \in Whitespace THEN LStrip(Tail(s)) ELSE s

RECURSIVE RStrip(_)
\* str.rstrip()
RStrip(s) ==
    IF s # <<>> /\ s[Len(s)] \in Whitespace
    THEN RStrip(SubSeq(s, 1, Len(s) - 1))
    ELSE s

\* str.strip()
Strip(s) == RStrip(LStrip(s))

RECURSIVE Join(_)
\* "".join(parts)
Join(parts) ==
    IF parts = <<>> THEN <<>> ELSE Head(parts) \o Join(Tail(parts))

\* sep occurs in text at position i
OccursAt(sep, text, i) ==
    /\ i + Len(sep) - 1 <= Len(text)
    /\ SubSeq(text, i, i + Len(sep) - 1) = sep

\* re.search(re.escape(sep), text), for a separator that is not empty
Occurs(sep, text) == \E i \in 1..Len(text) : OccursAt(sep, text, i)

\* where the leftmost occurrence of sep in text starts
FirstOccurrence(sep, text) ==
    CHOOSE i \in 1..Len(text) :
        /\ OccursAt(sep, text, i)
        /\ \A j \in 1..(i - 1) : ~OccursAt(sep, text, j)

----------------------------------------------------------------------------
(* indexing.py lines 69-73: RecursiveCharacterTextSplitter(chunk_size=1000, *)
(* chunk_overlap=200, length_function=len).split_documents([doc]), with    *)
(* the library's defaults: separators "\n\n", "\n", " ", "", the separator *)
(* kept at the start of the piece after it, chunks stripped of whitespace. *)
(* The splitter's sizes are those of config.                               *)

\* the library's default separators
Separators == << <<"\n", "\n">>, <<"\n">>, <<" ">>, <<>> >>

RECURSIVE Pieces(_, _)
\* re.split(sep, text): the pieces between the occurrences of sep
Pieces(text, sep) ==
    IF ~Occurs(sep, text) THEN <<text>>
    ELSE LET i == FirstOccurrence(sep, text)
         IN  <<SubSeq(text, 1, i - 1)>>
                 \o Pieces(SubSeq(text, i + Len(sep), Len(text)), sep)

\* s without its empty elements
NonEmptyOnly(s) == SelectSeq(s, LAMBDA x : x # <<>>)

\* _split_text_with_regex(text, sep, keep_separator=True): every piece but
\* the first starts with the separator; the empty separator gives list(text)
SplitKeepSeparator(text, sep) ==
    IF sep = <<>> THEN [i \in 1..Len(text) |-> <<text[i]>>]
    ELSE LET p == Pieces(text, sep)
         IN  NonEmptyOnly([i \in 1..Len(p) |->
                              IF i = 1 THEN p[1] ELSE sep \o p[i]])

\* _join_docs without the strip
JoinDocsUnstripped(docs) ==
    LET text == Join(docs)
    IN  IF text = <<>> THEN <<>> ELSE <<text>>

\* _join_docs: the joined, stripped text as a list of one chunk, or no
\* chunk when nothing is left
JoinDocs(docs) ==
    LET text == Strip(Join(docs))
    IN  IF text = <<>> THEN <<>> ELSE <<text>>

RECURSIVE DropForOverlap(_, _, _)
\* _merge_splits, the while loop: pieces leave the front of current_doc
\* until what is left fits the overlap and leaves room for the next piece
DropForOverlap(current_doc, total, len) ==
    IF \/ total > config.chunk_overlap
       \/ (total + len > config.chunk_size /\ total > 0)
    THEN DropForOverlap(Tail(current_doc), total - Len(Head(current_doc)), len)
    ELSE [current_doc |-> current_doc, total |-> total]

RECURSIVE MergeLoopDropsLast(_, _, _, _)
\* _merge_splits without the join after the loop: the pieces still in
\* current_doc when the pieces run out are lost
MergeLoopDropsLast(splits, docs, current_doc, total) ==
    IF splits = <<>> THEN docs
    ELSE LET d == Head(splits)
             len == Len(d)
         IN  IF total + len > config.chunk_size /\ current_doc # <<>>
             THEN LET kept == DropForOverlap(current_doc, total, len)
                  IN  MergeLoopDropsLast(Tail(splits),
                                         docs \o JoinDocs(current_doc),
                                         Append(kept.current_doc, d),
                                         kept.total + len)
             ELSE MergeLoopDropsLast(Tail(splits), docs,
                                     Append(current_doc, d), total + len)

RECURSIVE MergeLoop(_, _, _, _)
\* _merge_splits, the loop over the pieces (the separator joined with is
\* empty, since the pieces keep theirs)
MergeLoop(splits, docs, current_doc, total) ==
    IF splits = <<>> THEN docs \o JoinDocs(current_doc)
    ELSE LET d == Head(splits)
             len == Len(d)
         IN  IF total + len > config.chunk_size /\ current_doc # <<>>
             THEN LET kept == DropForOverlap(current_doc, total, len)
                  IN  MergeLoop(Tail(splits), docs \o JoinDocs(current_doc),
                                Append(kept.current_doc, d), kept.total + len)
             ELSE MergeLoop(Tail(splits), docs,
                            Append(current_doc, d), total + len)

\* _merge_splits
MergeSplits(splits) == MergeLoop(splits, <<>>, <<>>, 0)

\* _split_text: the first separator of the list that is empty or occurs in
\* the text (the last one when there is none)
SeparatorIndex(text, seps) ==
    IF \E i \in 1..Len(seps) : seps[i] = <<>> \/ Occurs(seps[i], text)
    THEN CHOOSE i \in 1..Len(seps) :
             /\ seps[i] = <<>> \/ Occurs(seps[i], text)
             /\ \A j \in 1..(i - 1) : ~(seps[j] = <<>> \/ Occurs(seps[j], text))
    ELSE Len(seps)

\* _split_text: the separators left for the pieces that are too long; none
\* after the empty separator
NewSeparators(text, seps) ==
    LET i == SeparatorIndex(text, seps)
    IN  IF seps[i] # <<>> /\ Occurs(seps[i], text)
        THEN SubSeq(seps, i + 1, Len(seps))
        ELSE <<>>

\* _split_text: merging the good pieces collected so far
Flush(good) == IF good = <<>> THEN <<>> ELSE MergeSplits(good)

RECURSIVE SplitText(_, _)
RECURSIVE SplitLoop(_, _, _, _)
\* _split_text, the loop over the pieces: a piece shorter than chunk_size
\* is good; a longer one is split with the next separators, or kept whole
\* when none is left
SplitLoop(splits, good, final_chunks, new_separators) ==
    IF splits = <<>> THEN final_chunks \o Flush(good)
    ELSE LET s == Head(splits)
         IN  IF Len(s) < config.chunk_size
             THEN SplitLoop(Tail(splits), Append(good, s), final_chunks,
                            new_separators)
             ELSE SplitLoop(Tail(splits), <<>>,
                            final_chunks \o Flush(good)
                                \o (IF new_separators = <<>> THEN <<s>>
                                    ELSE SplitText(s, new_separators)),
                            new_separators)

\* _split_text
SplitText(text, seps) ==
    SplitLoop(SplitKeepSeparator(text, seps[SeparatorIndex(text, seps)]),
              <<>>, <<>>, NewSeparators(text, seps))

\* line 73 with the metadata of the first member on every chunk
SplitDocumentOfAlice(text, name) ==
    LET chunks == SplitText(text, Separators)
    IN  [i \in 1..Len(chunks) |->
            [page_content |-> chunks[i], member_name |-> "alice"]]

\* lines 65-73: the chunks of a Document with the text and the metadata
\* member_name; every chunk carries the metadata
SplitDocument(text, name) ==
    LET chunks == SplitText(text, Separators)
    IN  [i \in 1..Len(chunks) |->
            [page_content |-> chunks[i], member_name |-> name]]

----------------------------------------------------------------------------
(* indexing.py: create_faiss_vector_store *)

\* the most files a member directory lists
MaxFiles == 2

\* the entries acad_profiles_dir can list: the member directories and a
\* plain file
EntryNames == Members \cup {"README.md"}

\* line 28, os.path.isdir(member_path)
IsDir(name) == name \in Members

\* the file names a member directory can list
PdfNames == {"cv.pdf", "paper.pdf"}
TxtNames == {"bio.txt"}
FileNames == PdfNames \cup TxtNames \cup {"photo.png"}

\* line 35, f.endswith(".pdf"), and line 47, f.endswith(".txt")
IsPdf(f) == f.name \in PdfNames
IsTxt(f) == f.name \in TxtNames

\* what load_and_split() returns for each PDF that loads: its pages
PdfPages(name) ==
    IF name = "cv.pdf" THEN << <<"a", "b">> >>
    ELSE << <<"c", " ", "d">>, <<"e", "f">> >>

\* what f.read() can return for a text file that opens
TxtContents ==
    { <<" ">>,
      <<"i", " ", "j", "k", "\n", "\n", "l", "m">> }

\* a file of a member directory: readable says whether loading it returns;
\* pages are the PDF's pages or the text file's one content
FileRecords ==
    {[name |-> n, readable |-> TRUE, pages |-> PdfPages(n)] : n \in PdfNames}
    \cup [name : TxtNames, readable : {TRUE},
          pages : {<<t>> : t \in TxtContents}]
    \cup [name : PdfNames \cup TxtNames, readable : {FALSE}, pages : {<<>>}]
    \cup [name : FileNames \ (PdfNames \cup TxtNames), readable : {TRUE},
          pages : {<<>>}]

\* os.listdir(member_path): files of distinct names, in any order
DirListings ==
    UNION {
        {fs \in [1..k -> FileRecords] :
            \A i, j \in 1..k : i # j => fs[i].name # fs[j].name}
        : k \in 0..MaxFiles}

RECURSIVE AddPages(_, _)
\* lines 41-42, and line 52 for the one content of a text file
AddPages(text, pages) ==
    IF pages = <<>> THEN text
    ELSE AddPages(text \o Head(pages) \o <<"\n">>, Tail(pages))

RECURSIVE LoadPdfsAbortOnError(_, _)
\* lines 35-44 with the try around the whole loop: the first PDF that
\* fails to load ends the loading of the PDFs
LoadPdfsAbortOnError(files, text) ==
    IF files = <<>> THEN text
    ELSE IF ~IsPdf(Head(files)) THEN LoadPdfsAbortOnError(Tail(files), text)
    ELSE IF Head(files).readable
         THEN LoadPdfsAbortOnError(Tail(files), AddPages(text, Head(files).pages))
         ELSE text

RECURSIVE LoadPdfs(_, _)
\* lines 35-44: the PDFs in listing order; one that fails to load is
\* reported and adds nothing
LoadPdfs(files, text) ==
    IF files = <<>> THEN text
    ELSE IF ~IsPdf(Head(files)) THEN LoadPdfs(Tail(files), text)
    ELSE IF Head(files).readable
         THEN LoadPdfs(Tail(files), AddPages(text, Head(files).pages))
         ELSE LoadPdfs(Tail(files), text)

RECURSIVE LoadTextFiles(_, _)
\* lines 47-54: the text files in listing order; one that cannot be read
\* is reported and adds nothing
LoadTextFiles(files, text) ==
    IF files = <<>> THEN text
    ELSE IF ~IsTxt(Head(files)) THEN LoadTextFiles(Tail(files), text)
    ELSE IF Head(files).readable
         THEN LoadTextFiles(Tail(files), AddPages(text, Head(files).pages))
         ELSE LoadTextFiles(Tail(files), text)

\* lines 32-54: the PDFs first, then the text files
FullProfileText(files) == LoadTextFiles(files, LoadPdfs(files, <<>>))

\* line 57 placed before the text files are loaded
ContentFoundInPdfs(files) == Strip(LoadPdfs(files, <<>>)) # <<>>

\* line 57, "if not full_profile_text.strip()", negated
ContentFound(files) == Strip(FullProfileText(files)) # <<>>

\* the entity names of a list of chunks
MembersOf(docs) == {docs[i].member_name : i \in 1..Len(docs)}

IndexInit ==
    /\ pc = "listdir"
    /\ raised = NoError
    /\ retrieved_chunks = <<>>
    /\ ranked_profiles = <<>>
    /\ displayed = <<>>
    /\ IndexIdle
    /\ IncidentIdle
    /\ TableIdle
    /\ SplitterIdle
    /\ LoadIdle
    /\ ProcessIdle
    /\ EmbedIdle
    /\ DatabaseIdle
    /\ AnalyserIdle
    /\ MainIdle

\* lines 26-28: an entry that is not a directory is passed over; the body
\* of the if is not run, so the files and the text of the directory before
\* stay as they are
SkipNonDirectory ==
    /\ pc = "listdir"
    /\ \E name \in EntryNames \ listed :
          /\ ~IsDir(name)
          /\ listed' = listed \cup {name}
          /\ member_dir' = name
    /\ UNCHANGED <<pc, raised, rankVars, incidentVars, splitterVars,
                   loadVars, tableVars, member_files, full_profile_text,
                   profile_texts, all_documents, vector_store, saved_index,
                   processVars, embedVars, databaseVars, analyserVars,
                   mainVars>>

\* lines 26-59: a member directory with no content is skipped
SkipMember ==
    /\ pc = "listdir"
    /\ \E name \in EntryNames \ listed, files \in DirListings :
          /\ IsDir(name)
          /\ ~ContentFound(files)
          /\ listed' = listed \cup {name}
          /\ member_dir' = name
          /\ member_files' = files
          /\ full_profile_text' = FullProfileText(files)
          /\ profile_texts' =
                 [profile_texts EXCEPT ![name] = <<FullProfileText(files)>>]
    /\ UNCHANGED <<pc, raised, rankVars, incidentVars, splitterVars,
                   loadVars, tableVars, all_documents, vector_store,
                   saved_index, processVars, embedVars, databaseVars,
                   analyserVars, mainVars>>

\* TextSplitter.__init__ with the comparison turned round
ConfigAcceptedAbove(c) == c.chunk_overlap >= c.chunk_size

\* TextSplitter.__init__: a chunk_overlap larger than chunk_size is
\* rejected with ValueError
ConfigAccepted(c) == c.chunk_overlap <= c.chunk_size

\* lines 26-74: a member directory with content is split into chunks by a
\* splitter constructed for it
IndexMember ==
    /\ pc = "listdir"
    /\ ConfigAccepted(config)
    /\ \E name \in EntryNames \ listed, files \in DirListings :
          /\ IsDir(name)
          /\ ContentFound(files)
          /\ listed' = listed \cup {name}
          /\ member_dir' = name
          /\ member_files' = files
          /\ full_profile_text' = FullProfileText(files)
          /\ profile_texts' =
                 [profile_texts EXCEPT ![name] = <<FullProfileText(files)>>]
          /\ all_documents' =
                 all_documents \o SplitDocument(FullProfileText(files), name)
    /\ text_splitter' = <<config>>
    /\ UNCHANGED <<pc, raised, rankVars, incidentVars, tableVars, config,
                   loadVars, vector_store, saved_index, processVars,
                   embedVars, databaseVars, analyserVars, mainVars>>

\* lines 76-89 with chunks to index: the store is built from all_documents,
\* saved and returned; the loop's variables are gone
BuildAndSave ==
    /\ pc = "listdir"
    /\ all_documents # <<>>
    /\ vector_store' = StoreOf(all_documents)
    /\ saved_index' = SaveLocal(StoreOf(all_documents))
    /\ pc' = "built"
    /\ member_dir' = None
    /\ member_files' = <<>>
    /\ full_profile_text' = <<>>
    /\ model_loads' = model_loads + 1
    /\ UNCHANGED <<raised, rankVars, incidentVars, splitterVars, loadVars,
                   tableVars, listed, profile_texts, all_documents, messages,
                   incidents, returned, embedVars, databaseVars,
                   analyserVars, mainVars>>

\* lines 76-84 with no chunk: FAISS.from_documents sizes its index by
\* len(embeddings[0]), and on the empty list that raises IndexError; nothing
\* is saved or returned
BuildFailsOnEmpty ==
    /\ pc = "listdir"
    /\ all_documents = <<>>
    /\ raised' = "IndexError"
    /\ pc' = "failed"
    /\ member_dir' = None
    /\ member_files' = <<>>
    /\ full_profile_text' = <<>>
    /\ model_loads' = model_loads + 1
    /\ UNCHANGED <<rankVars, incidentVars, splitterVars, loadVars, tableVars,
                   listed, profile_texts, all_documents, vector_store,
                   saved_index, messages, incidents, returned, embedVars,
                   databaseVars, analyserVars, mainVars>>

\* the most chunks a query of the indexing flow asks for
MaxK == 1

\* the distances the embedding model can put between the query and a chunk
\* in the indexing flow: none, 1, and the largest of the model
QueryDistances == {0, DScale, MaxDistQ}

\* the most chunks a query of the retrieval flow asks for
MaxQueryK == 2

\* the model that made the vectors of the store and the model that embeds
\* its queries: what the distances of a query depend on, with the vectors
ModelPair(store) == <<store.indexed_with, store.embeddings>>

\* the squared L2 distances the index can measure from the vector of a
\* query to the vectors of docs, by position
Distances(docs) == [1..Len(docs) -> QueryDistances]

RECURSIVE InsertFarthest(_, _, _)
\* the search with the comparison turned round
InsertFarthest(labels, p, d) ==
    IF labels = <<>> THEN <<p>>
    ELSE IF d[p] > d[Head(labels)] THEN <<p>> \o labels
    ELSE <<Head(labels)>> \o InsertFarthest(Tail(labels), p, d)

RECURSIVE InsertNearest(_, _, _)
\* the flat index keeps its hits ordered by distance: position p goes
\* before the first hit that is farther, after the hits as far as it
InsertNearest(labels, p, d) ==
    IF labels = <<>> THEN <<p>>
    ELSE IF d[p] < d[Head(labels)] THEN <<p>> \o labels
    ELSE <<Head(labels)>> \o InsertNearest(Tail(labels), p, d)

RECURSIVE NearestFirst(_, _)
\* the positions 1..n of the index, nearest first
NearestFirst(n, d) ==
    IF n = 0 THEN <<>> ELSE InsertNearest(NearestFirst(n - 1, d), n, d)

\* index.search(vector, k): k labels, nearest first, and -1 where the index
\* has no more vectors
IndexSearch(d, k) ==
    LET sorted == NearestFirst(Len(d), d)
    IN  [i \in 1..k |-> IF i <= Len(sorted) THEN sorted[i] ELSE -1]

\* similarity_search_with_score(query_text, k=k): the labels of -1 are
\* passed over, each other label gives its document with its distance, and
\* the list is cut to k
SimilaritySearchWithScore(store, d, k) ==
    LET found == SelectSeq(IndexSearch(d, k), LAMBDA i : i # -1)
    IN  Take([j \in 1..Len(found) |->
                 ChunkOf(store.docs[found[j]].member_name,
                         store.docs[found[j]].page_content, d[found[j]])],
             k)

\* retrieval.py lines 39-56 with k, on the store just built or on the store
\* loaded.  The distances are decided by the query text, the vectors and
\* the two models; query keeps them for the models of the store asked and
\* for the models of the store that was built
FindTopMatchesWith(k) ==
    /\ pc \in {"built", "loaded"}
    /\ LET store == IF pc = "built" THEN vector_store ELSE faiss_db[1]
           pairs == {ModelPair(store)}
                        \cup (IF vector_store.exists
                              THEN {ModelPair(vector_store)} ELSE {})
       IN  /\ store.exists
           /\ \E d \in [pairs -> Distances(store.docs)] :
                 /\ query' = [k |-> k, distances |-> d]
                 /\ retrieved_chunks' =
                        SimilaritySearchWithScore(store, d[ModelPair(store)],
                                                  k)
    /\ pc' = "retrieve"
    /\ steps' = Append(steps, "query")
    /\ UNCHANGED <<raised, ranked_profiles, displayed, indexVars,
                   incidentVars, splitterVars, faiss_db, tableVars,
                   processVars, embedVars, databaseVars, analyserVars,
                   llm>>

\* the call of find_top_matches by the flow: the store just built is asked
\* for up to MaxK chunks, the store loaded for up to MaxQueryK (line 177
\* asks for 20)
FindTopMatches ==
    \E k \in 1..(IF pc = "built" THEN MaxK ELSE MaxQueryK) :
        FindTopMatchesWith(k)

IndexNext ==
    \/ SkipNonDirectory
    \/ SkipMember
    \/ IndexMember
    \/ BuildAndSave
    \/ BuildFailsOnEmpty
    \/ FindTopMatches
    \/ GroupAndRank

SpecIndex == IndexInit /\ [][IndexNext]_vars

\* create_faiss_vector_store alone, as the __main__ block of indexing.py
\* runs it
BuildNext ==
    \/ SkipNonDirectory
    \/ SkipMember
    \/ IndexMember
    \/ BuildAndSave
    \/ BuildFailsOnEmpty

SpecBuild == IndexInit /\ [][BuildNext]_vars

\* lines 76-84 when the embedding model raises on one of the chunks: the
\* model is constructed, FAISS.from_documents embeds all the chunks in one
\* embed_documents call, the exception of that call leaves from_documents
\* and create_faiss_vector_store; nothing is built, saved or returned
EmbeddingFails ==
    /\ pc = "listdir"
    /\ all_documents # <<>>
    /\ \E i \in 1..Len(all_documents) : embedding_failed' = {i}
    /\ raised' = "RuntimeError"
    /\ pc' = "failed"
    /\ member_dir' = None
    /\ member_files' = <<>>
    /\ full_profile_text' = <<>>
    /\ model_loads' = model_loads + 1
    /\ UNCHANGED <<rankVars, incidentVars, splitterVars, loadVars, tableVars,
                   listed, profile_texts, all_documents, vector_store,
                   saved_index, messages, incidents, returned, databaseVars,
                   analyserVars, mainVars>>

EmbedNext ==
    \/ IndexNext
    \/ EmbeddingFails

\* create_faiss_vector_store with an embedding model that can raise
SpecEmbed == IndexInit /\ [][EmbedNext]_vars

----------------------------------------------------------------------------
(* Claims about create_faiss_vector_store (SpecIndex) *)

\* text has a character that is not whitespace
NonBlank(text) == \E i \in 1..Len(text) : text[i] \notin Whitespace

\* the member directories iterated so far whose concatenated text is not
\* blank
NonBlankMembers ==
    {m \in Members :
        profile_texts[m] # <<>> /\ NonBlank(profile_texts[m][1])}

\* C7: when no chunk is collected (the corpus directory is empty, or every
\* entity is skipped), no step of the build-then-query pipeline raises and
\* the ranked list is empty
C7_EmptyCorpusRanksEmpty ==
    all_documents = <<>> =>
        /\ raised = NoError
        /\ pc # "failed"
        /\ ranked_profiles = <<>>

\* C8: a member directory whose concatenated text is empty or whitespace
\* contributes no chunk, and the entities of the chunks collected, and of
\* the index once built, are exactly the directories with non-blank text
C8_BlankSkippedOthersIndexed ==
    /\ MembersOf(all_documents) = NonBlankMembers
    /\ vector_store.exists =>
          MembersOf(vector_store.docs) = NonBlankMembers
    /\ saved_index.exists =>
          MembersOf(DocsOfSnapshot(saved_index)) = NonBlankMembers

\* C8 witness: alice's text was whitespace and not empty, she was skipped,
\* and the loop went on to index bob
C8_Witness ==
    /\ pc = "listdir"
    /\ member_dir = "bob"
    /\ profile_texts["alice"] # <<>>
    /\ profile_texts["alice"][1] # <<>>
    /\ ~NonBlank(profile_texts["alice"][1])
    /\ MembersOf(all_documents) = {"bob"}

\* the text a file that loads adds to the profile
FileText(f) == AddPages(<<>>, f.pages)

\* the PDF and text files of the listing that load
ReadableFiles(files) ==
    {i \in 1..Len(files) :
        (IsPdf(files[i]) \/ IsTxt(files[i])) /\ files[i].readable}

\* C9: a file that fails to load does not abort the batch: the loop goes
\* on, every file of the same entity that loads still has its text in the
\* entity's concatenated text, and every entity with non-blank text is
\* chunked and is in the index once built
C9_ReadFailureIsLocal ==
    /\ member_dir \in Members =>
          /\ pc = "listdir"
          /\ raised = NoError
          /\ \A i \in ReadableFiles(member_files) :
                \/ FileText(member_files[i]) = <<>>
                \/ Occurs(FileText(member_files[i]), full_profile_text)
          /\ (\E i \in ReadableFiles(member_files) :
                  NonBlank(FileText(member_files[i])))
             => member_dir \in MembersOf(all_documents)
    /\ \A m \in NonBlankMembers :
          /\ m \in MembersOf(all_documents)
          /\ vector_store.exists => m \in MembersOf(vector_store.docs)

\* C9 witness: bob's directory lists a file that fails to load before one
\* that loads; bob is chunked, and alice, iterated before, still is
C9_Witness ==
    /\ pc = "listdir"
    /\ member_dir = "bob"
    /\ Len(member_files) = 2
    /\ ~member_files[1].readable
    /\ 2 \in ReadableFiles(member_files)
    /\ Occurs(FileText(member_files[2]), full_profile_text)
    /\ MembersOf(all_documents) = {"alice", "bob"}

\* the texts of the chunks of docs whose member_name is m, in order
ChunkTextsOf(docs, m) ==
    LET own == SelectSeq(docs, LAMBDA c : c.member_name = m)
    IN  [i \in 1..Len(own) |-> own[i].page_content]

\* every chunk of docs names a directory that was read, its text is a piece
\* of that directory's text, and the chunks that name a directory are the
\* chunks its text was split into
OneParentEach(docs) ==
    /\ \A i \in 1..Len(docs) :
          /\ docs[i].member_name \in Members \cap listed
          /\ profile_texts[docs[i].member_name] # <<>>
          /\ Occurs(docs[i].page_content,
                    profile_texts[docs[i].member_name][1])
    /\ \A m \in Members :
          ChunkTextsOf(docs, m) =
              IF m \in NonBlankMembers
              THEN SplitText(profile_texts[m][1], Separators)
              ELSE <<>>

\* C13: every chunk collected, and every chunk of the index built and of
\* the index saved, has one parent: its member_name is the name of the
\* directory whose text it was cut from, and its text is a piece of that
\* directory's text only
C13_ChunkHasOneParent ==
    /\ OneParentEach(all_documents)
    /\ vector_store.exists =>
          \/ vector_store.docs = all_documents
          \/ OneParentEach(vector_store.docs)
    /\ saved_index.exists =>
          \/ DocsOfSnapshot(saved_index) = all_documents
          \/ OneParentEach(DocsOfSnapshot(saved_index))

\* C13 witness: an index built from two directories with different texts,
\* one of them split into several chunks
C13_Witness ==
    /\ vector_store.exists
    /\ NonBlankMembers = Members
    /\ profile_texts["alice"] # profile_texts["bob"]
    /\ Len(ChunkTextsOf(vector_store.docs, "bob")) > 1
    /\ Len(ChunkTextsOf(vector_store.docs, "alice")) > 0

----------------------------------------------------------------------------
(* The two scripts one after the other: indexing.py builds and saves the    *)
(* index, then the main flow of retrieval.py loads it and queries it.       *)
(* create_faiss_vector_store is one step here.                              *)

\* the listings of a member directory in this flow: no file, a PDF of one
\* page, a PDF of two pages with a text file, a text file of whitespace
SampleListings ==
    { <<>>,
      <<[name |-> "cv.pdf", readable |-> TRUE, pages |-> PdfPages("cv.pdf")]>>,
      <<[name |-> "paper.pdf", readable |-> TRUE,
         pages |-> PdfPages("paper.pdf")],
        [name |-> "bio.txt", readable |-> TRUE,
         pages |-> << <<"i", " ", "j", "k", "\n", "\n", "l", "m">> >>]>>,
      <<[name |-> "bio.txt", readable |-> TRUE, pages |-> << <<" ">> >>]>> }

\* acad_profiles_dir: its entries in the order os.listdir gives them, each
\* with its listing
ProfileDirs ==
    UNION {
        {es \in [1..n -> [name : EntryNames, files : SampleListings]] :
            /\ \A i, j \in 1..n : i # j => es[i].name # es[j].name
            /\ \A i \in 1..n : ~IsDir(es[i].name) => es[i].files = <<>>}
        : n \in 0..Cardinality(Members)}

RECURSIVE CollectDocuments(_, _)
\* indexing.py lines 26-74, the whole loop: all_documents after the entries
CollectDocuments(entries, docs) ==
    IF entries = <<>> THEN docs
    ELSE LET entry == Head(entries)
         IN  IF IsDir(entry.name) /\ ContentFound(entry.files)
             THEN CollectDocuments(
                      Tail(entries),
                      docs \o SplitDocument(FullProfileText(entry.files),
                                            entry.name))
             ELSE CollectDocuments(Tail(entries), docs)

ScriptsInit ==
    /\ pc = "shell"
    /\ raised = NoError
    /\ retrieved_chunks = <<>>
    /\ ranked_profiles = <<>>
    /\ displayed = <<>>
    /\ IndexIdle
    /\ IncidentIdle
    /\ TableIdle
    /\ SplitterIdle
    /\ LoadIdle
    /\ ProcessIdle
    /\ EmbedIdle
    /\ DatabaseIdle
    /\ AnalyserIdle
    /\ MainIdle

\* indexing.py lines 9-89 on a directory that yields chunks: the store is
\* built, saved at save_path and returned
CreateFaissVectorStore ==
    /\ pc = "shell"
    /\ ~saved_index.exists
    /\ \E entries \in ProfileDirs :
          /\ CollectDocuments(entries, <<>>) # <<>>
          /\ listed' = {entries[i].name : i \in 1..Len(entries)}
          /\ all_documents' = CollectDocuments(entries, <<>>)
          /\ vector_store' = StoreOf(CollectDocuments(entries, <<>>))
          /\ saved_index' =
                 SaveLocal(StoreOf(CollectDocuments(entries, <<>>)))
    /\ model_loads' = model_loads + 1
    /\ UNCHANGED <<pc, raised, rankVars, incidentVars, tableVars,
                   splitterVars, loadVars, member_dir, member_files,
                   full_profile_text, profile_texts, messages, incidents,
                   returned, embedVars, databaseVars, analyserVars,
                   mainVars>>

\* indexing.py lines 9-84 on a directory that yields no chunk:
\* FAISS.from_documents raises IndexError on the empty list
CreateFaissVectorStoreFails ==
    /\ pc = "shell"
    /\ ~saved_index.exists
    /\ \E entries \in ProfileDirs :
          /\ CollectDocuments(entries, <<>>) = <<>>
          /\ listed' = {entries[i].name : i \in 1..Len(entries)}
    /\ raised' = "IndexError"
    /\ pc' = "failed"
    /\ model_loads' = model_loads + 1
    /\ UNCHANGED <<rankVars, incidentVars, tableVars, splitterVars, loadVars,
                   member_dir, member_files, full_profile_text,
                   profile_texts, all_documents, vector_store, saved_index,
                   messages, incidents, returned, embedVars, databaseVars,
                   analyserVars, mainVars>>

\* retrieval.py lines 13-30, called at line 168: the snapshot at save_path
\* is read with a new embeddings object and the store is returned
LoadFaissVectorStore ==
    /\ pc = "shell"
    /\ saved_index.exists
    /\ faiss_db' = <<LoadLocal(saved_index, LoadingModelName)>>
    /\ pc' = "loaded"
    /\ model_loads' = 1
    /\ steps' = Append(steps, "load")
    /\ UNCHANGED <<raised, rankVars, indexVars, incidentVars, tableVars,
                   splitterVars, query, messages, incidents, returned,
                   embedVars, databaseVars, analyserVars, llm>>

\* load_faiss_vector_store without its except clause: the exception of the
\* embeddings object or of load_local reaches the main flow
LoadFaissVectorStoreRaises ==
    /\ pc = "shell"
    /\ raised' = "RuntimeError"
    /\ pc' = "failed"
    /\ model_loads' \in {0, 1}
    /\ steps' = Append(steps, "load")
    /\ UNCHANGED <<rankVars, indexVars, incidentVars, tableVars,
                   splitterVars, loadVars, messages, incidents, returned,
                   embedVars, databaseVars, analyserVars, llm>>

\* retrieval.py lines 23-36, called at line 168: the embeddings object or
\* load_local raises (there is no snapshot at save_path, or it cannot be
\* read); the exception is caught, a message is printed and None returned
LoadFaissVectorStoreFails ==
    /\ pc = "shell"
    /\ faiss_db' = <<NoStore>>
    /\ pc' = "loaded"
    /\ model_loads' \in {0, 1}
    /\ steps' = Append(steps, "load")
    /\ UNCHANGED <<raised, rankVars, indexVars, incidentVars, tableVars,
                   splitterVars, query, messages, incidents, returned,
                   embedVars, databaseVars, analyserVars, llm>>

\* retrieval.py lines 169-170: without a store the main flow exits
ExitWithoutStore ==
    /\ pc = "loaded"
    /\ ~faiss_db[1].exists
    /\ pc' = "exit"
    /\ UNCHANGED <<raised, rankVars, indexVars, incidentVars, tableVars,
                   splitterVars, loadVars, processVars, embedVars,
                   databaseVars, analyserVars, mainVars>>

ScriptsNext ==
    \/ CreateFaissVectorStore
    \/ CreateFaissVectorStoreFails
    \/ LoadFaissVectorStore
    \/ LoadFaissVectorStoreFails
    \/ ExitWithoutStore
    \/ FindTopMatches
    \/ GroupAndRank

SpecScripts == ScriptsInit /\ [][ScriptsNext]_vars

\* find_top_matches called with any k from 0 on a loaded store; with k = 0
\* an index.search without the assertion finds nothing
FindTopMatchesAnyK ==
    /\ pc = "loaded"
    /\ \E k \in 0..MaxQueryK : FindTopMatchesWith(k)

\* find_top_matches with k below 1: index.search asserts k > 0 where the
\* installed faiss has the assertion, and sizes its result arrays by k where
\* it has not, which numpy refuses for a negative k; the exception leaves
\* similarity_search_with_score and find_top_matches, nothing is returned
FindTopMatchesRejectsK ==
    /\ pc = "loaded"
    /\ faiss_db[1].exists
    /\ \E k \in {-1, 0} :
          /\ query' = [NoQuery EXCEPT !.k = k]
          /\ raised' \in (IF k = 0 THEN {"AssertionError"}
                          ELSE {"AssertionError", "ValueError"})
    /\ pc' = "failed"
    /\ steps' = Append(steps, "query")
    /\ UNCHANGED <<rankVars, indexVars, incidentVars, splitterVars, faiss_db,
                   tableVars, processVars, embedVars, databaseVars,
                   analyserVars, llm>>

QueryNext ==
    \/ CreateFaissVectorStore
    \/ LoadFaissVectorStore
    \/ FindTopMatchesAnyK
    \/ FindTopMatchesRejectsK

\* find_top_matches as a function of k, on a store built, saved and loaded
SpecQuery == ScriptsInit /\ [][QueryNext]_vars

\* C17: for every query text and every k, find_top_matches returns at most
\* k (chunk, distance) pairs, and the pairs are in non-decreasing order of
\* distance, nearest first.
C17_AtMostKNearestFirst ==
    /\ (pc = "retrieve" /\ faiss_db # <<>>) =>
          /\ Len(retrieved_chunks) <= query.k
          /\ \A i \in 1..(Len(retrieved_chunks) - 1) :
                retrieved_chunks[i].score <= retrieved_chunks[i + 1].score
    /\ raised \in {"AssertionError", "ValueError"} =>
          /\ query.k < 1
          /\ retrieved_chunks = <<>>

\* the loaded store holds more chunks than the two asked for, its first
\* chunk is farther than the nearest, and the two returned lie at different
\* distances
C17_Witness ==
    /\ pc = "retrieve"
    /\ faiss_db # <<>>
    /\ query.k = 2
    /\ Len(faiss_db[1].docs) > 2
    /\ query.distances[ModelPair(faiss_db[1])][1] > retrieved_chunks[1].score
    /\ Len(retrieved_chunks) = 2
    /\ retrieved_chunks[1].score < retrieved_chunks[2].score

SavedAfterBuilt ==
    saved_index.exists =>
        /\ vector_store.exists
        /\ saved_index = SaveLocal(vector_store)

\* what is loaded is the saved snapshot
LoadedFromSnapshot ==
    (faiss_db # <<>> /\ faiss_db[1].exists) =>
        /\ saved_index.exists
        /\ faiss_db[1] = LoadLocal(saved_index, LoadingModelName)

\* C19: the index lifecycle is Empty -> Built -> (Saved <-> Loaded): an
\* index is saved only after it has been built, it is loaded only from a
\* saved snapshot, and a query against an index that holds no chunks returns
\* an empty result rather than an error (so building the index of no chunks
\* raises nothing, and the flow never stops in a failure).
C19_LifecycleAndEmptyIndexQuery ==
    /\ SavedAfterBuilt
    /\ LoadedFromSnapshot
    /\ all_documents = <<>> =>
           /\ raised = NoError
           /\ pc # "failed"

\* the main flow has called load_faiss_vector_store
LoadAttempted == pc # "shell" /\ raised # "IndexError"

\* C20 as stated: when loading the persisted index fails (missing or corrupt
\* snapshot), the failure propagates out of load_faiss_vector_store to its
\* caller instead of being recovered locally.
C20_LoadFailurePropagates ==
    (LoadAttempted /\ faiss_db # <<>> /\ ~faiss_db[1].exists) =>
        raised # NoError

\* C20: when loading the persisted index fails (missing or corrupt
\* snapshot), load_faiss_vector_store catches the exception and returns None
\* to its caller: no exception leaves the function, the caller gets None in
\* place of a store, and the main flow then exits without querying.
C20_LoadFailureReturnsNone ==
    LoadAttempted =>
        /\ raised = NoError
        /\ faiss_db # <<>>
        /\ ~faiss_db[1].exists =>
               /\ pc \in {"loaded", "exit"}
               /\ query = NoQuery
               /\ retrieved_chunks = <<>>

\* a snapshot was saved, the load of it failed all the same, None came
\* back and the main flow has exited
C20_Witness ==
    /\ pc = "exit"
    /\ saved_index.exists
    /\ faiss_db = <<NoStore>>
    /\ raised = NoError

\* the chunks collected without those whose embedding failed, in order
Embedded ==
    SelectSeq([i \in 1..Len(all_documents) |-> i],
              LAMBDA i : i \notin embedding_failed)

\* C22: during index construction an embedding failure for a single chunk
\* drops only that chunk: the run raises nothing and completes, and all the
\* other chunks are in the store built and saved.
C22_FailedChunkAloneIsDropped ==
    (embedding_failed # {} /\ pc # "listdir") =>
        /\ raised = NoError
        /\ pc # "failed"
        /\ vector_store.exists
        /\ vector_store.docs =
               [n \in 1..Len(Embedded) |-> all_documents[Embedded[n]]]
        /\ saved_index = SaveLocal(vector_store)

\* the corpus has two entities with one chunk each, both were retrieved,
\* and the query is strictly nearer to the chunk of entity b than to the
\* chunk of entity a
TwoEntitiesNearerTo(b, a) ==
    /\ faiss_db # <<>>
    /\ Len(faiss_db[1].docs) = 2
    /\ {faiss_db[1].docs[i].member_name : i \in 1..2} = {a, b}
    /\ Len(retrieved_chunks) = 2
    /\ \E i, j \in 1..2 :
          /\ retrieved_chunks[i].member_name = b
          /\ retrieved_chunks[j].member_name = a
          /\ retrieved_chunks[i].score < retrieved_chunks[j].score

\* C25: for a corpus of two entities A and B with one chunk each, where the
\* query is strictly nearer to B's chunk than to A's chunk, the ranked
\* output places B above A.
C25_NearerEntityRanksAbove ==
    \A a, b \in Members :
        (pc = "explain" /\ a # b /\ TwoEntitiesNearerTo(b, a)) =>
            /\ Len(ranked_profiles) = 2
            /\ ranked_profiles[1].member_name = b
            /\ ranked_profiles[2].member_name = a

\* alice and bob have one chunk each, the query is nearer to bob's, and the
\* ranking was made
C25_Witness ==
    /\ pc = "explain"
    /\ TwoEntitiesNearerTo("bob", "alice")
    /\ Len(ranked_profiles) = 2
    /\ ranked_profiles[1].match_score_percent
           > ranked_profiles[2].match_score_percent

----------------------------------------------------------------------------
(* indexing.py lines 32-74 for one member directory whose files hold any    *)
(* text: the text is read character by character, then chunked              *)

\* the longest profile text
MaxText == 7

\* the characters a file can hold
Alphabet == {"a", "b", " ", "\n", "\t"}

ChunkInit ==
    /\ pc = "reading"
    /\ raised = NoError
    /\ retrieved_chunks = <<>>
    /\ ranked_profiles = <<>>
    /\ displayed = <<>>
    /\ listed = {"alice"}
    /\ member_dir = "alice"
    /\ member_files = <<>>
    /\ full_profile_text = <<>>
    /\ profile_texts = [m \in Members |-> <<>>]
    /\ all_documents = <<>>
    /\ vector_store = NoStore
    /\ saved_index = NoSnapshot
    /\ IncidentIdle
    /\ TableIdle
    /\ SplitterIdle
    /\ LoadIdle
    /\ ProcessIdle
    /\ EmbedIdle
    /\ DatabaseIdle
    /\ AnalyserIdle
    /\ MainIdle

\* lines 41-42 and 51-52: the text grows by the next character of a page or
\* of a text file (the newline that ends it included)
ReadChar ==
    /\ pc = "reading"
    /\ Len(full_profile_text) < MaxText
    /\ \E c \in Alphabet : full_profile_text' = Append(full_profile_text, c)
    /\ UNCHANGED <<pc, raised, rankVars, incidentVars, splitterVars,
                   loadVars, tableVars, listed, member_dir, member_files,
                   profile_texts, all_documents, vector_store, saved_index,
                   processVars, embedVars, databaseVars, analyserVars,
                   mainVars>>

\* the text is empty or ends with the newline lines 42 and 52 add
AllFilesRead(text) ==
    IF text = <<>> THEN TRUE ELSE text[Len(text)] = "\n"

\* lines 57-59: no content, the directory is skipped
SkipBlankProfile ==
    /\ pc = "reading"
    /\ AllFilesRead(full_profile_text)
    /\ Strip(full_profile_text) = <<>>
    /\ profile_texts' =
           [profile_texts EXCEPT ![member_dir] = <<full_profile_text>>]
    /\ pc' = "skipped"
    /\ UNCHANGED <<raised, rankVars, incidentVars, splitterVars, loadVars,
                   tableVars, listed, member_dir, member_files,
                   full_profile_text, all_documents, vector_store,
                   saved_index, processVars, embedVars, databaseVars,
                   analyserVars, mainVars>>

\* lines 57-74: the text is split and the chunks are collected
ChunkProfile ==
    /\ pc = "reading"
    /\ ConfigAccepted(config)
    /\ AllFilesRead(full_profile_text)
    /\ Strip(full_profile_text) # <<>>
    /\ profile_texts' =
           [profile_texts EXCEPT ![member_dir] = <<full_profile_text>>]
    /\ all_documents' =
           all_documents \o SplitDocument(full_profile_text, member_dir)
    /\ text_splitter' = <<config>>
    /\ pc' = "chunked"
    /\ UNCHANGED <<raised, rankVars, incidentVars, tableVars, config,
                   loadVars, listed, member_dir, member_files,
                   full_profile_text, vector_store, saved_index, processVars,
                   embedVars, databaseVars, analyserVars, mainVars>>

ChunkNext ==
    \/ ReadChar
    \/ SkipBlankProfile
    \/ ChunkProfile

SpecChunk == ChunkInit /\ [][ChunkNext]_vars

----------------------------------------------------------------------------
(* Claims about the chunks of one document (SpecChunk) *)

\* the positions of text that hold a character that is not whitespace
Inked(text) == {i \in 1..Len(text) : text[i] \notin Whitespace}

\* the smallest and the largest number of a set of numbers that is not empty
Least(S) == CHOOSE x \in S : \A y \in S : x <= y
Greatest(S) == CHOOSE x \in S : \A y \in S : x >= y

\* text from its first to its last character that is not whitespace
Core(text) == SubSeq(text, Least(Inked(text)), Greatest(Inked(text)))

\* C14 as amended: a document no longer than chunk_size gives exactly one
\* chunk, which is the document without the whitespace at its two ends
C14_ShortDocumentIsOneStrippedChunk ==
    (pc = "chunked" /\ Len(full_profile_text) <= ChunkSize) =>
        /\ Len(all_documents) = 1
        /\ all_documents[1].page_content = Core(full_profile_text)

\* C14 witness: a chunked document of exactly chunk_size characters with
\* whitespace at both ends and inside
C14_Witness ==
    /\ pc = "chunked"
    /\ Len(full_profile_text) = ChunkSize
    /\ full_profile_text[1] = " "
    /\ \E i \in 2..(Len(full_profile_text) - 1) :
          /\ full_profile_text[i] \in Whitespace
          /\ i - 1 \in Inked(full_profile_text)
          /\ \E j \in Inked(full_profile_text) : j > i
    /\ Len(all_documents) = 1

\* C14 as claimed: a document no longer than chunk_size gives exactly one
\* chunk, equal to the document
C14_ShortDocumentIsOneEqualChunk ==
    (pc = "chunked" /\ Len(full_profile_text) <= ChunkSize) =>
        /\ Len(all_documents) = 1
        /\ all_documents[1].page_content = full_profile_text

\* the texts of the chunks collected
ChunkTexts == [i \in 1..Len(all_documents) |-> all_documents[i].page_content]

RECURSIVE LieInOrder(_, _, _, _, _)
\* the chunks can be laid on text, each where it occurs and none starting
\* before the one before it starts (the first at from or later), so that
\* with the positions in covered they cover all the positions in needed
LieInOrder(chunks, text, from, covered, needed) ==
    IF chunks = <<>> THEN needed \subseteq covered
    ELSE \E p \in from..Len(text) :
            /\ OccursAt(Head(chunks), text, p)
            /\ LieInOrder(Tail(chunks), text, p,
                          covered \cup (p..(p + Len(Head(chunks)) - 1)),
                          needed)

\* C15 as amended: for a document longer than chunk_size, every chunk is a
\* contiguous piece of the document, the chunks lie in the document in
\* order, none starting before the one before it starts, and every character
\* of the document that is in no chunk is whitespace: with the overlaps
\* removed the chunks give the document back except for whitespace where
\* it was cut
C15_ChunksCoverAllButWhitespace ==
    (pc = "chunked" /\ Len(full_profile_text) > ChunkSize) =>
        LieInOrder(ChunkTexts, full_profile_text, 1, {},
                   Inked(full_profile_text))

\* C15 witness: a document longer than chunk_size with whitespace inside,
\* cut into several chunks that do not cover all of it
C15_Witness ==
    /\ pc = "chunked"
    /\ Len(full_profile_text) > ChunkSize
    /\ Len(all_documents) >= 2
    /\ \E j \in 2..(Len(full_profile_text) - 1) :
          /\ full_profile_text[j] \in Whitespace
          /\ \E i \in Inked(full_profile_text) : i > j
    /\ LieInOrder(ChunkTexts, full_profile_text, 1, {},
                  Inked(full_profile_text))
    /\ ~LieInOrder(ChunkTexts, full_profile_text, 1, {},
                   1..(Len(full_profile_text) - 1))

\* C15 as claimed: for a document longer than chunk_size the chunks lie in
\* the document in order and cover every character of it, so that with the
\* overlaps removed they give the document back exactly
C15_ChunksReconstructDocument ==
    (pc = "chunked" /\ Len(full_profile_text) > ChunkSize) =>
        LieInOrder(ChunkTexts, full_profile_text, 1, {},
                   1..Len(full_profile_text))

\* C16: a chunker configuration with chunk_overlap >= chunk_size fails with
\* a configuration error when the chunker is constructed, before any
\* document is read or split; with the configured values (chunk_size 1000,
\* chunk_overlap 200, here on the model's scale) construction succeeds and
\* the splitting of every document terminates.  The values are literals of
\* line 71, so the configuration of the first half is one the program is
\* never in; every document with content is split by a splitter that was
\* constructed, into at least one chunk and no more chunks than it has
\* characters.
C16_ConfiguredSplitterConstructs ==
    /\ config = Configured
    /\ config.chunk_overlap >= config.chunk_size =>
          /\ raised = "ValueError"
          /\ all_documents = <<>>
    /\ config.chunk_overlap < config.chunk_size =>
          /\ ConfigAccepted(config)
          /\ raised # "ValueError"
    /\ pc = "chunked" =>
          /\ text_splitter = <<Configured>>
          /\ Len(all_documents) >= 1
          /\ Len(all_documents) <= Len(full_profile_text)

\* a document longer than chunk_size was split into several chunks by the
\* splitter constructed with the values of line 71
C16_Witness ==
    /\ pc = "chunked"
    /\ text_splitter = <<Configured>>
    /\ Len(full_profile_text) > ChunkSize
    /\ Len(all_documents) >= 2

----------------------------------------------------------------------------
(* vector_db.py: preprocess_text, create_incident_document *)

\* the mark of a character that is left out
Dropped == "dropped"

\* line 67, re.sub(r'\s+', ' ', text): every run of whitespace becomes one
\* space; the whitespace characters that continue a run are left out
CollapseWhitespace(text) ==
    LET marked ==
            [i \in 1..Len(text) |->
                IF text[i] \notin Whitespace THEN text[i]
                ELSE IF i = 1 \/ text[i - 1] \notin Whitespace THEN " "
                ELSE Dropped]
    IN  SelectSeq(marked, LAMBDA c : c # Dropped)

\* lines 60-69 without line 67: the text is stripped only
PreprocessTextStripOnly(v) ==
    IF v.kind # "str" \/ v.text = <<>> THEN <<>>
    ELSE Strip(v.text)

\* lines 60-69: "" for None, '' and NaN; else stripped, whitespace collapsed
PreprocessText(v) ==
    IF v.kind # "str" \/ v.text = <<>> THEN <<>>
    ELSE CollapseWhitespace(Strip(v.text))

\* "if incident.get(key):": None and '' are falsy, NaN (a float) is truthy
Truthy(v) == v.kind = "nan" \/ (v.kind = "str" /\ v.text # <<>>)

\* f"{value}": NaN prints as nan; an absent key is formatted only through
\* .get(key, ''), which gives ''
Format(v) ==
    IF v.kind = "nan" THEN <<"n", "a", "n">> ELSE v.text

\* lines 84-107: the label put before the value of key f
Label(f) ==
    IF f = "briefDescription" THEN
        <<"I", "s", "s", "u", "e", ":", " ">>
    ELSE IF f = "incidentBody" THEN
        <<"D", "e", "s", "c", "r", "i", "p", "t", "i", "o", "n", ":", " ">>
    ELSE IF f = "request" THEN
        <<"U", "s", "e", "r", " ", "R", "e", "q", "u", "e", "s", "t", ":", " ">>
    ELSE IF f = "category" THEN
        <<"C", "a", "t", "e", "g", "o", "r", "y", ":", " ">>
    ELSE IF f = "subcategory" THEN
        <<"S", "u", "b", "c", "a", "t", "e", "g", "o", "r", "y", ":", " ">>
    ELSE IF f = "softwareRequired" THEN
        <<"S", "o", "f", "t", "w", "a", "r", "e", ":", " ">>
    ELSE IF f = "callerDepartment" THEN
        <<"D", "e", "p", "a", "r", "t", "m", "e", "n", "t", ":", " ">>
    ELSE
        <<"R", "e", "s", "e", "a", "r", "c", "h", " ", "A", "r", "e", "a", ":", " ">>

RECURSIVE JoinWith(_, _)
\* sep.join(parts)
JoinWith(sep, parts) ==
    IF parts = <<>> THEN <<>>
    ELSE IF Len(parts) = 1 THEN parts[1]
    ELSE parts[1] \o sep \o JoinWith(sep, Tail(parts))

RECURSIVE TextParts(_, _)
\* lines 82-107: text_parts, a labelled part for every key of keys whose
\* value is truthy
TextParts(row, keys) ==
    IF keys = <<>> THEN <<>>
    ELSE IF Truthy(row[Head(keys)])
         THEN <<Label(Head(keys)) \o Format(row[Head(keys)])>>
                  \o TextParts(row, Tail(keys))
         ELSE TextParts(row, Tail(keys))

\* lines 71-118
CreateIncidentDocument(row) ==
    [content |->
         PreprocessText(Str(JoinWith(<<" ", "|", " ">>,
                                     TextParts(row, TextFields)))),
     brief_description |-> PreprocessText(row["briefDescription"]),
     incident_body |-> PreprocessText(row["incidentBody"]),
     category_info |->
         Format(row["category"]) \o <<" ", ">", " ">>
             \o Format(row["subcategory"])]

\* the values of the three free-text keys in the model
FreeTextValues ==
    {Absent, NaN, Str(<<>>), Str(<<"p">>),
     Str(<<" ", "q", "\n", "\n", "r", " ", " ", "s", " ">>)}

\* the values of the five context keys in the model
ContextValues == {Absent, Str(<<"x">>)}

\* the rows of the model
Incidents ==
    {row \in [{TextFields[i] : i \in 1..Len(TextFields)} ->
                 FreeTextValues \cup ContextValues] :
        /\ \A i \in 4..Len(TextFields) : row[TextFields[i]] \in ContextValues}

IncidentInit ==
    /\ pc = "incident"
    /\ raised = NoError
    /\ retrieved_chunks = <<>>
    /\ ranked_profiles = <<>>
    /\ displayed = <<>>
    /\ IndexIdle
    /\ TableIdle
    /\ SplitterIdle
    /\ LoadIdle
    /\ ProcessIdle
    /\ EmbedIdle
    /\ DatabaseIdle
    /\ AnalyserIdle
    /\ MainIdle
    /\ incident \in Incidents
    /\ document = <<>>

\* vector_db.py line 157: doc = self.create_incident_document(row)
CreateDocument ==
    /\ pc = "incident"
    /\ document' = <<CreateIncidentDocument(incident)>>
    /\ pc' = "document"
    /\ UNCHANGED <<raised, rankVars, indexVars, incident, tableVars,
                   splitterVars, loadVars, processVars, embedVars,
                   databaseVars, analyserVars, mainVars>>

----------------------------------------------------------------------------
(* Ingestion from either source: a directory of member directories, or a   *)
(* row of the incidents table                                              *)

IngestInit == IndexInit \/ IncidentInit

IngestNext == IndexNext \/ CreateDocument

SpecIngest == IngestInit /\ [][IngestNext]_vars

----------------------------------------------------------------------------
(* Claims about the ingested text of either source (SpecIngest) *)

\* the files of the listing, in listing order, that are named in names and
\* load
Loaded(files, names) ==
    SelectSeq(files, LAMBDA f : f.name \in names /\ f.readable)

RECURSIVE AllPages(_)
\* the pages and contents of the files fs, in order
AllPages(fs) ==
    IF fs = <<>> THEN <<>> ELSE Head(fs).pages \o AllPages(Tail(fs))

\* every piece followed by a newline, in one string
NewlineTerminated(pieces) ==
    Join([k \in 1..Len(pieces) |-> pieces[k] \o <<"\n">>])

\* the keys of the row, in reading order, whose value is neither absent nor
\* the empty string
PresentFields(row) ==
    SelectSeq(TextFields, LAMBDA f : row[f] \notin {Absent, Str(<<>>)})

\* the words of text: its maximal runs of characters that are not whitespace
Words(text) ==
    LET positions == [i \in 1..Len(text) |-> i]
        starts == SelectSeq(positions, LAMBDA i :
                      /\ text[i] \notin Whitespace
                      /\ (i = 1 \/ text[i - 1] \in Whitespace))
        ends == SelectSeq(positions, LAMBDA i :
                      /\ text[i] \notin Whitespace
                      /\ (i = Len(text) \/ text[i + 1] \in Whitespace))
    IN  [k \in 1..Len(starts) |-> SubSeq(text, starts[k], ends[k])]

\* C10 as amended: the directory source gives the pages of the PDFs that
\* load, in listing order, then the contents of the text files that load,
\* in listing order, each followed by a newline; the tabular source gives
\* the row's non-empty fields in reading order, each behind its label,
\* joined by " | ", with the ends stripped and every run of whitespace
\* turned into one space
C10_IngestedTextLayout ==
    /\ member_dir \in Members =>
          full_profile_text =
              NewlineTerminated(AllPages(Loaded(member_files, PdfNames))
                                    \o AllPages(Loaded(member_files, TxtNames)))
    /\ document # <<>> =>
          LET present == PresentFields(incident)
              labelled == [k \in 1..Len(present) |->
                              Label(present[k]) \o Format(incident[present[k]])]
          IN  document[1].content =
                  JoinWith(<<" ">>, Words(JoinWith(<<" ", "|", " ">>, labelled)))

\* C10 witness: a document built from a row with a free text that has
\* newlines and runs of spaces, a missing value and a context value
C10_Witness ==
    /\ document # <<>>
    /\ incident["briefDescription"]
           = Str(<<" ", "q", "\n", "\n", "r", " ", " ", "s", " ">>)
    /\ incident["incidentBody"] = NaN
    /\ incident["category"] = Str(<<"x">>)
    /\ Len(document[1].content) > 0

\* C10 as claimed: for either source the string is the entity's textual
\* fields (file contents, row fields) in source order, separated by a
\* newline (a newline after the last one is let pass)
C10_NewlineSeparatedInSourceOrder ==
    /\ member_dir \in Members =>
          LET fields == AllPages(Loaded(member_files, PdfNames \cup TxtNames))
          IN  full_profile_text \in
                  {JoinWith(<<"\n">>, fields),
                   JoinWith(<<"\n">>, fields) \o <<"\n">>}
    /\ document # <<>> =>
          LET present == PresentFields(incident)
              fields == [k \in 1..Len(present) |-> Format(incident[present[k]])]
          IN  document[1].content \in
                  {JoinWith(<<"\n">>, fields),
                   JoinWith(<<"\n">>, fields) \o <<"\n">>}

----------------------------------------------------------------------------
(* vector_db.py: build_incidents_collection, build_persons_collection,      *)
(* build_assets_collection.  A row is a function from the columns the code  *)
(* reads to values; a column that the CSV file does not have is Absent in   *)
(* every row, an empty cell of a column it has is NaN.                      *)

\* the most rows of a CSV file
MaxRows == 3

\* vector_db.py line 204, batch_size = 100, scaled down so that a file of
\* MaxRows rows makes two batches
BatchSize == 2

\* the decimal digits, for str(idx)
Digits == <<"0", "1", "2", "3", "4", "5", "6", "7", "8", "9">>

\* str(n) for a row index
StrOfIndex(n) == IF n < 10 THEN <<Digits[n + 1]>>
                 ELSE <<Digits[(n \div 10) + 1], Digits[(n % 10) + 1]>>

\* lines 165-198: the metadata keys of an incident that copy a column, each
\* with the column it copies
IncidentMetadataColumns ==
    << <<"number", "number">>, <<"category", "category">>,
       <<"subcategory", "subcategory">>, <<"priority", "priority">>,
       <<"impact", "impact">>, <<"urgency", "urgency">>,
       <<"status", "status">>, <<"caller_department", "callerDepartment">>,
       <<"caller_name", "callerName">>,
       <<"research_discipline", "researchDiscipline">>,
       <<"software_required", "softwareRequired">>,
       <<"object_name", "objectName">>, <<"object_type", "objectType">>,
       <<"location", "location">>, <<"operator", "operator">>,
       <<"operator_group", "operatorGroup">>, <<"call_date", "callDate">>,
       <<"creation_date", "creationDate">>,
       <<"modification_date", "modificationDate">> >>

\* lines 281-296, the same for a person
PersonMetadataColumns ==
    << <<"dynamic_name", "dynamicName">>, <<"first_name", "firstName">>,
       <<"surname", "surName">>, <<"email", "email">>,
       <<"department", "department">>, <<"job_title", "jobTitle">>,
       <<"branch", "branch">>, <<"location", "location">>,
       <<"manager", "manager">>, <<"employee_number", "employeeNumber">>,
       <<"budget_holder", "budgetHolder">> >>

\* lines 377-392, the same for an asset
AssetMetadataColumns ==
    << <<"name", "name">>, <<"type", "type">>, <<"brand", "brand">>,
       <<"model", "model">>, <<"serial_number", "serialNumber">>,
       <<"asset_tag", "assetTag">>, <<"status", "status">>,
       <<"location", "location">>, <<"assigned_to", "assignedTo">>,
       <<"assigned_to_department", "assignedToDepartment">>,
       <<"supplier", "supplier">> >>

\* the collections build_complete_database builds
Tables == {"incidents", "persons", "assets"}

MetadataColumns(t) ==
    IF t = "incidents" THEN IncidentMetadataColumns
    ELSE IF t = "persons" THEN PersonMetadataColumns
    ELSE AssetMetadataColumns

\* the columns the code reads from a row of table t
ColumnsRead(t) ==
    {"id"}
    \cup {MetadataColumns(t)[i][2] : i \in 1..Len(MetadataColumns(t))}
    \cup (IF t = "incidents"
          THEN {TextFields[i] : i \in 1..Len(TextFields)} ELSE {})

\* the prefix of the default id and of the id handed to the collection:
\* 'incident_', 'person_', 'asset_'
IdPrefix(t) ==
    IF t = "incidents" THEN <<"i", "n", "c", "i", "d", "e", "n", "t", "_">>
    ELSE IF t = "persons" THEN <<"p", "e", "r", "s", "o", "n", "_">>
    ELSE <<"a", "s", "s", "e", "t", "_">>

\* the value of 'document_type': 'incident', 'person', 'asset'
DocumentType(t) == SubSeq(IdPrefix(t), 1, Len(IdPrefix(t)) - 1)

\* the value of 'source'
Topdesk == <<"t", "o", "p", "d", "e", "s", "k">>

\* the column metadata key k copies
ColumnOf(t, k) ==
    LET cols == MetadataColumns(t)
        i == CHOOSE j \in 1..Len(cols) : cols[j][1] = k
    IN  cols[i][2]

\* the keys of the metadata of a row of table t
MetadataKeys(t) ==
    {"id", "document_type", "source"}
    \cup {MetadataColumns(t)[i][1] : i \in 1..Len(MetadataColumns(t))}
    \cup (IF t = "incidents" THEN {"brief_description"} ELSE {})

\* lines 165-198, 281-296, 377-392: the metadata of row number n of table t;
\* brief is doc['brief_description'] (incidents only)
Metadata(t, row, n, brief) ==
    [k \in MetadataKeys(t) |->
        IF k = "id" THEN
            IF row["id"] = Absent THEN IdPrefix(t) \o StrOfIndex(n)
            ELSE Format(row["id"])
        ELSE IF k = "document_type" THEN DocumentType(t)
        ELSE IF k = "source" THEN Topdesk
        ELSE IF k = "brief_description" THEN brief
        ELSE Format(row[ColumnOf(t, k)])]

\* lines 201, 299, 395: f"incident_{incident.get('id', idx)}"
IdOf(t, row, n) ==
    IdPrefix(t) \o (IF row["id"] = Absent THEN StrOfIndex(n)
                    ELSE Format(row["id"]))

\* a labelled part for a column whose value is truthy, else nothing
Part(row, label, col) ==
    IF Truthy(row[col]) THEN <<label \o Format(row[col])>> ELSE <<>>

\* lines 258-260 and 357-359: one part for two columns, present when either
\* is truthy; the two values, a space between them, stripped
PairPart(row, label, col1, col2) ==
    IF Truthy(row[col1]) \/ Truthy(row[col2])
    THEN <<label \o Strip(Format(row[col1]) \o <<" ">> \o Format(row[col2]))>>
    ELSE <<>>

\* lines 256-272: text_parts of a person
PersonTextParts(row) ==
    PairPart(row, <<"N", "a", "m", "e", ":", " ">>, "firstName", "surName")
    \o Part(row, <<"D", "e", "p", "a", "r", "t", "m", "e", "n", "t", ":", " ">>, "department")
    \o Part(row, <<"R", "o", "l", "e", ":", " ">>, "jobTitle")
    \o Part(row, <<"L", "o", "c", "a", "t", "i", "o", "n", ":", " ">>, "branch")
    \o Part(row, <<"M", "a", "n", "a", "g", "e", "r", ":", " ">>, "manager")

\* lines 349-368: text_parts of an asset
AssetTextParts(row) ==
    Part(row, <<"A", "s", "s", "e", "t", ":", " ">>, "name")
    \o Part(row, <<"T", "y", "p", "e", ":", " ">>, "type")
    \o PairPart(row, <<"D", "e", "v", "i", "c", "e", ":", " ">>, "brand", "model")
    \o Part(row, <<"L", "o", "c", "a", "t", "i", "o", "n", ":", " ">>, "location")
    \o Part(row, <<"A", "s", "s", "i", "g", "n", "e", "d", " ", "t", "o", ":", " ">>, "assignedTo")
    \o Part(row, <<"D", "e", "p", "a", "r", "t", "m", "e", "n", "t", ":", " ">>, "assignedToDepartment")

\* lines 274-278 and 370-374: the document of a row with text parts
JoinedContent(parts) ==
    PreprocessText(Str(JoinWith(<<" ", "|", " ">>, parts)))

\* lines 157-160, 274-275, 370-371: whether the loop passes over the row
RowSkipped(t, row) ==
    IF t = "incidents" THEN Strip(CreateIncidentDocument(row).content) = <<>>
    ELSE IF t = "persons" THEN PersonTextParts(row) = <<>>
    ELSE AssetTextParts(row) = <<>>

\* lines 162, 278, 374: the document appended for a row that is not skipped
RowDocument(t, row) ==
    IF t = "incidents" THEN CreateIncidentDocument(row).content
    ELSE IF t = "persons" THEN JoinedContent(PersonTextParts(row))
    ELSE JoinedContent(AssetTextParts(row))

\* the metadata appended for row number n
RowMetadata(t, row, n) ==
    Metadata(t, row, n,
             IF t = "incidents"
             THEN CreateIncidentDocument(row).brief_description ELSE <<>>)

\* the columns a CSV file of the model can have
ModelColumns(t) ==
    IF t = "incidents" THEN {"id", "number", "briefDescription", "category"}
    ELSE IF t = "persons" THEN {"id", "firstName", "surName", "department"}
    ELSE {"id", "name", "brand", "model"}

\* what pd.read_csv gives for a cell of a column the file has: NaN for an
\* empty cell, else the cell's text
CellValues == {NaN, Str(<<"p">>)}

\* the rows of a CSV file of table t with the columns cols
Rows(t, cols) ==
    {[c \in ColumnsRead(t) |-> IF c \in cols THEN f[c] ELSE Absent] :
        f \in [cols -> CellValues]}

\* what an earlier build can have left of the table's collection: nothing,
\* or a record under an id that a row of the file can give again
EarlierCollections(t) ==
    {NoCollection,
     [exists |-> TRUE,
      documents |-> << <<"o", "l", "d">> >>,
      metadatas |-> <<[id |-> <<"p">>]>>,
      ids |-> <<IdPrefix(t) \o <<"p">> >>]}

TableInit ==
    /\ pc = "read_csv"
    /\ raised = NoError
    /\ retrieved_chunks = <<>>
    /\ ranked_profiles = <<>>
    /\ displayed = <<>>
    /\ IndexIdle
    /\ IncidentIdle
    /\ table \in Tables
    /\ columns \in SUBSET ModelColumns(table)
    /\ df = <<>>
    /\ idx = 0
    /\ documents = <<>>
    /\ metadatas = <<>>
    /\ ids = <<>>
    /\ collection \in EarlierCollections(table)
    /\ SplitterIdle
    /\ LoadIdle
    /\ ProcessIdle
    /\ EmbedIdle
    /\ DatabaseIdle
    /\ AnalyserIdle
    /\ MainIdle

\* lines 135, 234, 327: pd.read_csv reads one more row of the file
ReadCsvRow ==
    /\ pc = "read_csv"
    /\ Len(df) < MaxRows
    /\ \E row \in Rows(table, columns) : df' = Append(df, row)
    /\ UNCHANGED <<pc, raised, rankVars, indexVars, incidentVars,
                   splitterVars, loadVars, table, columns, idx, documents,
                   metadatas, ids, collection, processVars, embedVars,
                   databaseVars, analyserVars, mainVars>>

\* lines 138-153, 237-252, 330-345: the collection of an earlier build is
\* deleted and the collection is created anew, empty
CreateCollection ==
    /\ pc = "read_csv"
    /\ collection' = [NoCollection EXCEPT !.exists = TRUE]
    /\ pc' = "iterrows"
    /\ UNCHANGED <<raised, rankVars, indexVars, incidentVars, splitterVars,
                   loadVars, table, columns, df, idx, documents, metadatas,
                   ids, processVars, embedVars, databaseVars, analyserVars,
                   mainVars>>

\* lines 155-160, 254-275, 347-371: the loop passes over the next row
SkipRow ==
    /\ pc = "iterrows"
    /\ idx < Len(df)
    /\ RowSkipped(table, df[idx + 1])
    /\ idx' = idx + 1
    /\ UNCHANGED <<pc, raised, rankVars, indexVars, incidentVars,
                   splitterVars, loadVars, table, columns, df, documents,
                   metadatas, ids, collection, processVars, embedVars,
                   databaseVars, analyserVars, mainVars>>

\* lines 155-201, 254-299, 347-395: the next row's document, metadata and
\* id are appended; the row's index is idx
AppendRow ==
    /\ pc = "iterrows"
    /\ idx < Len(df)
    /\ ~RowSkipped(table, df[idx + 1])
    /\ documents' = Append(documents, RowDocument(table, df[idx + 1]))
    /\ metadatas' = Append(metadatas, RowMetadata(table, df[idx + 1], idx))
    /\ ids' = Append(ids, IdOf(table, df[idx + 1], idx))
    /\ idx' = idx + 1
    /\ UNCHANGED <<pc, raised, rankVars, indexVars, incidentVars,
                   splitterVars, loadVars, table, columns, df, collection,
                   processVars, embedVars, databaseVars, analyserVars,
                   mainVars>>

\* ids has the same id twice
HasDuplicateIds(s) == \E i, j \in 1..Len(s) : i # j /\ s[i] = s[j]

\* lines 205-208: the slice [i : i + size] of a list
Slice(s, i, size) ==
    SubSeq(s, i + 1, IF i + size <= Len(s) THEN i + size ELSE Len(s))

\* collection.add on valid lists: the records are appended in order, save
\* those whose id the collection holds already, which chromadb passes over
\* without an error
RECURSIVE CollectionAdd(_, _, _, _)
CollectionAdd(coll, docs, metas, new_ids) ==
    IF new_ids = <<>> THEN coll
    ELSE CollectionAdd(
             IF \E j \in 1..Len(coll.ids) : coll.ids[j] = Head(new_ids)
             THEN coll
             ELSE [exists |-> TRUE,
                   documents |-> Append(coll.documents, Head(docs)),
                   metadatas |-> Append(coll.metadatas, Head(metas)),
                   ids |-> Append(coll.ids, Head(new_ids))],
             Tail(docs), Tail(metas), Tail(new_ids))

\* lines 203-214: the loop over the batches from position i on; collection
\* is what the collection holds at the end, raised the exception that ended
\* the loop (collection.add raises DuplicateIDError for a list with the
\* same id twice, and adds nothing of it) or NoError
RECURSIVE AddBatches(_, _, _, _, _, _)
AddBatches(coll, docs, metas, all_ids, i, batch_size) ==
    IF i >= Len(docs) THEN [collection |-> coll, raised |-> NoError]
    ELSE IF HasDuplicateIds(Slice(all_ids, i, batch_size))
    THEN [collection |-> coll, raised |-> "DuplicateIDError"]
    ELSE AddBatches(CollectionAdd(coll, Slice(docs, i, batch_size),
                                  Slice(metas, i, batch_size),
                                  Slice(all_ids, i, batch_size)),
                    docs, metas, all_ids, i + batch_size, batch_size)

\* lines 203-214, 301-307, 397-403: incidents are added in batches of
\* batch_size, persons and assets in one call when there are any
AddAll(t, coll, docs, metas, all_ids) ==
    AddBatches(coll, docs, metas, all_ids, 0,
               IF t = "incidents" \/ docs = <<>> THEN BatchSize
               ELSE Len(docs))

\* lines 203-217, 301-310, 397-406: the lists are added to the collection
\* (no call when they are empty) and the function returns
AddToCollection ==
    /\ pc = "iterrows"
    /\ idx = Len(df)
    /\ AddAll(table, collection, documents, metadatas, ids).raised = NoError
    /\ collection' =
           AddAll(table, collection, documents, metadatas, ids).collection
    /\ pc' = "added"
    /\ UNCHANGED <<raised, rankVars, indexVars, incidentVars, splitterVars,
                   loadVars, table, columns, df, idx, documents, metadatas,
                   ids, processVars, embedVars, databaseVars, analyserVars,
                   mainVars>>

\* lines 210, 303, 399: collection.add rejects a list with the same id
\* twice; the batches added before it stay in the collection
AddFailsOnDuplicateIds ==
    /\ pc = "iterrows"
    /\ idx = Len(df)
    /\ AddAll(table, collection, documents, metadatas, ids).raised # NoError
    /\ raised' = AddAll(table, collection, documents, metadatas, ids).raised
    /\ collection' =
           AddAll(table, collection, documents, metadatas, ids).collection
    /\ pc' = "failed"
    /\ UNCHANGED <<rankVars, indexVars, incidentVars, splitterVars, loadVars,
                   table, columns, df, idx, documents, metadatas, ids,
                   processVars, embedVars, databaseVars, analyserVars,
                   mainVars>>

TableNext ==
    \/ ReadCsvRow
    \/ CreateCollection
    \/ SkipRow
    \/ AppendRow
    \/ AddToCollection
    \/ AddFailsOnDuplicateIds

SpecTable == TableInit /\ [][TableNext]_vars

----------------------------------------------------------------------------
(* Claims about the tabular collections (SpecTable) *)

\* the indices of the rows iterated so far that the loop did not pass over,
\* in order: metadatas[i] was made from row Kept[i]
Kept ==
    SelectSeq([n \in 1..idx |-> n],
              LAMBDA n : ~RowSkipped(table, df[n]))

\* C11: every metadata value of an incident that copies a column is the
\* column's value as a string, and is the empty string when the column is
\* absent from the file and when the row's cell is missing (NaN); and no
\* row fails
C11_MissingMetadataIsEmptyString ==
    table = "incidents" =>
        /\ \A i \in 1..Len(metadatas) :
              \A j \in 1..Len(IncidentMetadataColumns) :
                  LET key == IncidentMetadataColumns[j][1]
                      value == df[Kept[i]][IncidentMetadataColumns[j][2]]
                  IN  metadatas[i][key] =
                          IF value \in {Absent, NaN} THEN <<>> ELSE value.text
        /\ pc # "failed"

\* the columns whose values make the text of a row of table t
TextColumns(t) ==
    IF t = "incidents" THEN {TextFields[i] : i \in 1..Len(TextFields)}
    ELSE IF t = "persons" THEN
        {"firstName", "surName", "department", "jobTitle", "branch",
         "manager"}
    ELSE {"name", "type", "brand", "model", "location", "assignedTo",
          "assignedToDepartment"}

\* every text field of the row is absent, missing (NaN) or empty
AllTextMissing(t, row) ==
    \A c \in TextColumns(t) : row[c] \in {Absent, NaN, Str(<<>>)}

\* C12: a row whose text fields are all empty or missing adds no document,
\* no metadata and no id, and every other row adds one of each
C12_RowWithoutTextIsSkipped ==
    table \in Tables =>
        LET n == Cardinality({r \in 1..idx : ~AllTextMissing(table, df[r])})
        IN  /\ Len(documents) = n
            /\ Len(metadatas) = n
            /\ Len(ids) = n

----------------------------------------------------------------------------
(* topdesk_analyser/utils.py: the ticket agent.  For every user message the *)
(* agent's prompt is made by pipeline, which calls get_similar_tickets on   *)
(* the collection persisted at ./topdesk_vectordb.                          *)

\* the most messages of a conversation, and the most direct calls
MaxMessages == 3

\* the most tickets of the persisted collection
MaxTickets == 3

\* utils.py line 222 and line 270: n_results by default and as pipeline asks
DefaultNResults == 8
PipelineNResults == 5

\* what a user writes
Problems == {<<"e">>, <<"v", "p", "n">>}

\* the collection topdesk_incidents as an earlier build left it: no ticket,
\* one ticket, or MaxTickets tickets
PersistedCollections ==
    {[exists |-> TRUE,
      documents |-> [i \in 1..n |-> <<"t">> \o StrOfIndex(i - 1)],
      metadatas |-> [i \in 1..n |-> [id |-> StrOfIndex(i - 1)]],
      ids |-> [i \in 1..n |-> IdPrefix("incidents") \o StrOfIndex(i - 1)]]
        : n \in {0, 1, MaxTickets}}

\* utils.py line 233: similarity_search gives the k nearest documents of the
\* collection, all of them when it holds fewer, nearest first; which ones
\* are nearest is decided by the query text and the vectors
SimilaritySearch(coll, k) ==
    LET count == Len(coll.documents)
        n == IF k <= count THEN k ELSE count
    IN  {[i \in 1..n |-> [page_content |-> coll.documents[o[i]],
                          metadata |-> coll.metadatas[o[i]]]]
            : o \in {f \in [1..n -> 1..count] :
                        \A i, j \in 1..n : i # j => f[i] # f[j]}}

AgentInit ==
    /\ pc = "agent"
    /\ raised = NoError
    /\ retrieved_chunks = <<>>
    /\ ranked_profiles = <<>>
    /\ displayed = <<>>
    /\ IndexIdle
    /\ IncidentIdle
    /\ table = None
    /\ columns = {}
    /\ df = <<>>
    /\ idx = 0
    /\ documents = <<>>
    /\ metadatas = <<>>
    /\ ids = <<>>
    /\ collection \in PersistedCollections
    /\ SplitterIdle
    /\ LoadIdle
    /\ ProcessIdle
    /\ EmbedIdle
    /\ DatabaseIdle
    /\ AnalyserIdle
    /\ MainIdle

\* utils.py lines 226-235, the body of get_similar_tickets: an embedding
\* model is constructed (line 227), the store is opened on the persisted
\* collection and searched
SimilarTickets(n_results) ==
    /\ model_loads' = model_loads + 1
    /\ incidents' \in SimilaritySearch(collection, n_results)

\* utils.py lines 221-235: get_similar_tickets called with its defaults
GetSimilarTickets ==
    /\ pc = "agent"
    /\ model_loads < MaxMessages
    /\ SimilarTickets(DefaultNResults)
    /\ UNCHANGED <<pc, raised, rankVars, indexVars, incidentVars, tableVars,
                   splitterVars, loadVars, messages, returned, embedVars,
                   databaseVars, analyserVars, mainVars>>

\* utils.py lines 268-275: the user's message has joined the conversation
\* and pipeline makes the prompt for it: the similar tickets in a system
\* message, then the conversation
Pipeline ==
    /\ pc = "agent"
    /\ Len(messages) < MaxMessages
    /\ \E user_problem \in Problems :
          /\ messages' = Append(messages, user_problem)
          /\ SimilarTickets(PipelineNResults)
          /\ returned' = <<[system_prompt |-> incidents']>>
                             \o Append(messages, user_problem)
    /\ UNCHANGED <<pc, raised, rankVars, indexVars, incidentVars, tableVars,
                   splitterVars, loadVars, embedVars, databaseVars,
                   analyserVars, mainVars>>

AgentNext ==
    \/ GetSimilarTickets
    \/ Pipeline

SpecAgent == AgentInit /\ [][AgentNext]_vars

----------------------------------------------------------------------------
(* Claims about the embedding model of a process (SpecAgent) *)

\* C21: within one process the embedding model is loaded at most once and
\* the same instance is reused for every query: however many queries
\* (pipeline or get_similar_tickets calls) are made, the number of loads
\* stays at one at most.
C21_ModelLoadedAtMostOnce ==
    model_loads <= 1

\* the ids the file gives are distinct: no two rows have the same text in
\* the id column
GivenIdsDistinct ==
    \A i, j \in 1..Len(df) :
        (i # j /\ df[i]["id"].kind = "str" /\ df[j]["id"].kind = "str")
            => df[i]["id"] # df[j]["id"]

\* the documents, metadatas and ids of the rows of the file that are kept
RecordsOfCsv ==
    [documents |-> [i \in 1..Len(Kept) |-> RowDocument(table, df[Kept[i]])],
     metadatas |->
         [i \in 1..Len(Kept) |-> RowMetadata(table, df[Kept[i]], Kept[i] - 1)],
     ids |-> [i \in 1..Len(Kept) |-> IdOf(table, df[Kept[i]], Kept[i] - 1)]]

\* nothing that an earlier build left is in the collection
NothingFromEarlierBuild ==
    pc = "added" =>
        \A i \in 1..Len(collection.ids) :
            \E j \in 1..Len(ids) :
                /\ collection.ids[i] = ids[j]
                /\ collection.documents[i] = documents[j]
                /\ collection.metadatas[i] = metadatas[j]

\* entry i of the three lists was made from the i-th kept row
ListsAligned ==
    /\ Len(documents) = Len(Kept)
    /\ Len(metadatas) = Len(Kept)
    /\ Len(ids) = Len(Kept)
    /\ \A i \in 1..Len(Kept) :
          /\ documents[i] = RowDocument(table, df[Kept[i]])
          /\ metadatas[i] = RowMetadata(table, df[Kept[i]], Kept[i] - 1)
          /\ ids[i] = IdOf(table, df[Kept[i]], Kept[i] - 1)

\* every entry of the lists is in the collection once, in order
ListsAddedOnce ==
    /\ collection.documents = documents
    /\ collection.metadatas = metadatas
    /\ collection.ids = ids

\* C28: in build_incidents_collection the documents, metadatas and ids
\* lists have equal length after every loop iteration and entry i of each
\* refers to the same CSV row; the batches passed to collection.add
\* partition the lists in order, so every kept row is added exactly once
\* with its own metadata and id (no add fails, and the function returns
\* with all of them in the collection).
C28_EveryKeptRowAddedOnce ==
    (table = "incidents" /\ GivenIdsDistinct) =>
        /\ ListsAligned
        /\ pc # "failed"
        /\ pc = "added" => ListsAddedOnce

\* no row of the file has an empty cell in the id column
NoIdMissing == \A i \in 1..Len(df) : df[i]["id"] # NaN

\* the same, for the files in which no id is missing
RowsWithIdsAddedOnce ==
    (table = "incidents" /\ GivenIdsDistinct /\ NoIdMissing) =>
        /\ ListsAligned
        /\ pc # "failed"
        /\ pc = "added" => ListsAddedOnce

\* C23: the index is rebuilt wholesale: after a build of a collection
\* completes, the collection contains exactly the records derived from the
\* CSV given to that call and nothing from any earlier build.
C23_CollectionIsExactlyTheCsvRecords ==
    (pc = "added" /\ GivenIdsDistinct) =>
        /\ collection.documents = RecordsOfCsv.documents
        /\ collection.metadatas = RecordsOfCsv.metadatas
        /\ collection.ids = RecordsOfCsv.ids
        /\ NothingFromEarlierBuild

----------------------------------------------------------------------------
(* vector_db.py: build_complete_database builds the incidents collection,   *)
(* the persons and assets collections when their CSV files are given, and   *)
(* then writes database_info.json.  Each build is one step here.            *)

\* the most rows of a CSV file given to build_complete_database
MaxDbRows == 2

\* lines 130, 229, 322: collection_name
CollectionName(t) ==
    IF t = "incidents" THEN "topdesk_incidents"
    ELSE IF t = "persons" THEN "topdesk_persons"
    ELSE "topdesk_assets"

\* the columns of the CSV files given: one text column, and the id
DatabaseColumns(t) ==
    IF t = "incidents" THEN {"id", "briefDescription"}
    ELSE IF t = "persons" THEN {"id", "firstName"}
    ELSE {"id", "name"}

\* the CSV files of table t, with the id column and without it; the
\* optional files are a row shorter than the incidents file
SampleCsvs(t) ==
    UNION {[1..n -> Rows(t, cols)] :
              n \in 0..(IF t = "incidents" THEN MaxDbRows ELSE MaxDbRows - 1),
              cols \in {DatabaseColumns(t), DatabaseColumns(t) \ {"id"}}}

\* lines 120-217, 219-310, 312-406, a whole build on the rows of the file:
\* the collection is created anew, the rows that are kept give the lists,
\* the lists are added; collection is what the collection holds at the end
\* and raised the exception that ended the build, or NoError
BuildCollectionOf(t, rows) ==
    LET kept == SelectSeq([n \in 1..Len(rows) |-> n],
                          LAMBDA n : ~RowSkipped(t, rows[n]))
    IN  AddAll(t, [NoCollection EXCEPT !.exists = TRUE],
               [i \in 1..Len(kept) |-> RowDocument(t, rows[kept[i]])],
               [i \in 1..Len(kept) |->
                   RowMetadata(t, rows[kept[i]], kept[i] - 1)],
               [i \in 1..Len(kept) |-> IdOf(t, rows[kept[i]], kept[i] - 1)])

\* lines 426-434: after the build of table t comes the one of persons, then
\* the one of assets, then the info file
NextStep(t) ==
    IF t = "incidents" THEN "persons"
    ELSE IF t = "persons" THEN "assets"
    ELSE "save_info"

\* the db_path arguments of the model: the default of line 24, and the same
\* directory named without the leading "./"
DbPaths == {"./topdesk_vectordb", "topdesk_vectordb"}

\* lines 33 and 437: str(Path(db_path)); Path drops the "." component, so
\* "./topdesk_vectordb" is written as "topdesk_vectordb"
StrOfPath(db_path) ==
    IF db_path = "./topdesk_vectordb" THEN "topdesk_vectordb" ELSE db_path

DatabaseInit ==
    /\ pc = "incidents"
    /\ raised = NoError
    /\ retrieved_chunks = <<>>
    /\ ranked_profiles = <<>>
    /\ displayed = <<>>
    /\ IndexIdle
    /\ IncidentIdle
    /\ TableIdle
    /\ SplitterIdle
    /\ LoadIdle
    /\ ProcessIdle
    /\ EmbedIdle
    /\ AnalyserIdle
    /\ MainIdle
    /\ builder \in [db_path : DbPaths,
                    embedding_model : {IndexingModelName, OtherModelName}]
    /\ csv_args \in SUBSET {"persons", "assets"}
    /\ collections = <<>>
    /\ client \in {[t \in Tables |-> NoCollection],
                    [t \in Tables |->
                        CHOOSE c \in EarlierCollections(t) : c.exists]}
    /\ db_info = <<>>
    /\ clock = 0

\* lines 426, 429-430, 432-433: the build of the next collection completes
\* and its name is entered in collections
BuildCollection ==
    /\ pc \in Tables
    /\ IF pc = "incidents" THEN TRUE ELSE pc \in csv_args
    /\ \E rows \in SampleCsvs(pc) :
          LET built == BuildCollectionOf(pc, rows)
          IN  /\ built.raised = NoError
              /\ client' = [client EXCEPT ![pc] = built.collection]
    /\ collections' = Append(collections, <<pc, CollectionName(pc)>>)
    /\ pc' = NextStep(pc)
    /\ clock' = clock + 1
    /\ UNCHANGED <<raised, rankVars, indexVars, incidentVars, tableVars,
                   splitterVars, loadVars, processVars, embedVars, builder,
                   csv_args, db_info, analyserVars, mainVars>>

\* lines 426, 430, 433: the build of the next collection raises, and so
\* does build_complete_database
BuildCollectionFails ==
    /\ pc \in Tables
    /\ IF pc = "incidents" THEN TRUE ELSE pc \in csv_args
    /\ \E rows \in SampleCsvs(pc) :
          LET built == BuildCollectionOf(pc, rows)
          IN  /\ built.raised # NoError
              /\ raised' = built.raised
              /\ client' = [client EXCEPT ![pc] = built.collection]
    /\ pc' = "failed"
    /\ clock' = clock + 1
    /\ UNCHANGED <<rankVars, indexVars, incidentVars, tableVars,
                   splitterVars, loadVars, processVars, embedVars, builder,
                   csv_args, collections, db_info, analyserVars, mainVars>>

\* lines 429 and 432: no CSV file was given for the collection
SkipCollection ==
    /\ pc \in {"persons", "assets"}
    /\ pc \notin csv_args
    /\ pc' = NextStep(pc)
    /\ UNCHANGED <<raised, rankVars, indexVars, incidentVars, tableVars,
                   splitterVars, loadVars, processVars, embedVars,
                   databaseVars, analyserVars, mainVars>>

\* db_info naming the incidents collection alone
DbInfoOfIncidents ==
    [database_path |-> StrOfPath(builder.db_path),
     embedding_model |-> builder.embedding_model,
     collections |-> << <<"incidents", CollectionName("incidents")>> >>,
     total_collections |-> 1,
     created_at |-> clock]

\* lines 436-442: db_info with now's time
DbInfo ==
    [database_path |-> StrOfPath(builder.db_path),
     embedding_model |-> builder.embedding_model,
     collections |-> collections,
     total_collections |-> Len(collections),
     created_at |-> clock]

\* lines 435-455: database_info.json is written and collections returned
SaveDatabaseInfo ==
    /\ pc = "save_info"
    /\ db_info' = <<DbInfo>>
    /\ pc' = "returned"
    /\ clock' = clock + 1
    /\ UNCHANGED <<raised, rankVars, indexVars, incidentVars, tableVars,
                   splitterVars, loadVars, processVars, embedVars, builder,
                   csv_args, collections, client, analyserVars, mainVars>>

DatabaseNext ==
    \/ BuildCollection
    \/ BuildCollectionFails
    \/ SkipCollection
    \/ SaveDatabaseInfo

SpecDatabase == DatabaseInit /\ [][DatabaseNext]_vars

----------------------------------------------------------------------------
(* Claims about build_complete_database (SpecDatabase) *)

\* the collections the call was asked to build
Requested == {"incidents"} \cup csv_args

\* C24 as stated: the info file records the embedding model identifier, the
\* names of exactly the collections built in that call, the record counts
\* and the creation timestamp.
C24_InfoFileRecordsRecordCounts ==
    db_info # <<>> =>
        /\ db_info[1].embedding_model = builder.embedding_model
        /\ {db_info[1].collections[i][2] :
               i \in 1..Len(db_info[1].collections)}
             = {CollectionName(t) : t \in Requested}
        /\ "record_counts" \in DOMAIN db_info[1]
        /\ "created_at" \in DOMAIN db_info[1]

\* C24: the info file written by build_complete_database records the
\* database path, the embedding model identifier, the names of exactly the
\* collections that were built in that call, the number of those
\* collections (and no record count) and the creation timestamp; it is
\* written only after every requested collection build has completed, and
\* not at all when one of them raises.
C24_InfoFileWrittenAfterBuilds ==
    /\ db_info # <<>> =>
          /\ DOMAIN db_info[1] =
                 {"database_path", "embedding_model", "collections",
                  "total_collections", "created_at"}
          /\ db_info[1].database_path = "topdesk_vectordb"
          /\ db_info[1].embedding_model = builder.embedding_model
          /\ {db_info[1].collections[i][2] :
                 i \in 1..Len(db_info[1].collections)}
               = {CollectionName(t) : t \in Requested}
          /\ db_info[1].total_collections = Cardinality(Requested)
          /\ db_info[1].created_at = clock - 1
          /\ db_info[1].created_at >= Cardinality(Requested)
          /\ \A t \in Requested : client[t].exists
          /\ raised = NoError
          /\ pc = "returned"
    /\ pc = "failed" => db_info = <<>>

\* the info file was written for a call that built incidents and persons,
\* with three records in the two collections, while the database holds an
\* assets collection of an earlier build
C24_Witness ==
    /\ db_info # <<>>
    /\ csv_args = {"persons"}
    /\ client["assets"].exists
    /\ Len(client["incidents"].ids) = 2
    /\ Len(client["persons"].ids) = 1
    /\ db_info[1].total_collections = 2

----------------------------------------------------------------------------
(* analyser.py: AITicketAnalyzer.analyze_ticket.  A response of Claude is   *)
(* kept as what json.loads makes of it: an object with some of the keys, a  *)
(* JSON value that is not an object, or text that is not JSON.              *)

\* the most tickets collection.query returns in the model (n_results is 8)
MaxResults == 4

\* analyser.py line 271: similar_tickets[:3]
TicketsKept == 3

\* a key of the object that is absent, or present with one of the values
Opt(values) == {<<>>} \cup {<<v>> : v \in values}

\* the keys analyze_ticket reads, and the key of call_claude's error object
ObjectData ==
    [category : Opt({"Hardware"}),
     subcategory : {<<>>},
     priority : {<<>>},
     assigned_team : {<<>>},
     technical_complexity : {<<>>},
     required_expertise : {<<>>},
     escalation_required : Opt({TRUE, FALSE}),
     reasoning : {<<>>},
     confidence_score : Opt({9}),
     immediate_actions : {<<>>},
     error : Opt({"message"})]

\* an object with no key
EmptyObject == CHOOSE d \in ObjectData : \A k \in DOMAIN d : d[k] = <<>>

\* the strings call_claude can return when the API call returns: a JSON
\* object, a JSON value that is not an object (a list), text that is no JSON
ClaudeTexts ==
    [kind : {"object"}, data : ObjectData]
        \cup {[kind |-> "list", data |-> EmptyObject],
              [kind |-> "text", data |-> EmptyObject]}

\* lines 227-230: '{"error": "..."}' with the message put between the
\* quotes as it is; a message with a quote, a backslash or a line break in
\* it makes text that is no JSON
ErrorResponse(message_is_plain) ==
    IF message_is_plain
    THEN [kind |-> "object", data |-> [EmptyObject EXCEPT !.error = <<"message">>]]
    ELSE [kind |-> "text", data |-> EmptyObject]

\* analysis_data.get(key, default)
Get(data, key, default) ==
    IF data[key] = <<>> THEN default ELSE data[key][1]

\* lines 71-92 on the grid: similarity_score = 1 - distance, and the ticket
\* is included when similarity_score > 0.3
Included(q) == 10 * (DScale - q) > 3 * DScale

\* lines 61-93: the tickets of the query results that are similar enough,
\* in the order of the results; ds are the distances, nearest first
SimilarOf(ds) ==
    LET at == SelectSeq([i \in 1..Len(ds) |-> i], LAMBDA i : Included(ds[i]))
    IN  [n \in 1..Len(at) |->
            [similarity |-> DScale - ds[at[n]], document |-> at[n]]]

\* lines 259-271: the TicketAnalysis made of a parsed object; the
\* confidence is in tenths
AnalysisOf(data, tickets) ==
    [category |-> Get(data, "category", "Unknown"),
     subcategory |-> Get(data, "subcategory", "Unknown"),
     priority |-> Get(data, "priority", "P3"),
     assigned_team |-> Get(data, "assigned_team", "Level 1 Support"),
     technical_complexity |-> Get(data, "technical_complexity", "medium"),
     required_expertise |-> Get(data, "required_expertise", <<>>),
     escalation_required |-> Get(data, "escalation_required", FALSE),
     reasoning |-> Get(data, "reasoning", "AI analysis completed"),
     confidence_score |-> Get(data, "confidence_score", 7),
     similar_tickets |-> Take(tickets, TicketsKept),
     immediate_actions |-> Get(data, "immediate_actions", <<>>)]

\* lines 277-290: the fallback TicketAnalysis
FallbackAnalysis(tickets) ==
    [category |-> "Analysis Error",
     subcategory |-> "JSON Parse Failed",
     priority |-> "P3",
     assigned_team |-> "Level 1 Support",
     technical_complexity |-> "medium",
     required_expertise |-> <<"manual review">>,
     escalation_required |-> TRUE,
     reasoning |-> "Could not parse Claude response. Raw response: ...",
     confidence_score |-> 3,
     similar_tickets |-> Take(tickets, TicketsKept),
     immediate_actions |->
         <<"Manual review required", "Check response format">>]

AnalyseInit ==
    /\ pc = "analyze_ticket"
    /\ raised = NoError
    /\ retrieved_chunks = <<>>
    /\ ranked_profiles = <<>>
    /\ displayed = <<>>
    /\ IndexIdle
    /\ IncidentIdle
    /\ TableIdle
    /\ SplitterIdle
    /\ LoadIdle
    /\ ProcessIdle
    /\ EmbedIdle
    /\ DatabaseIdle
    /\ AnalyserIdle
    /\ MainIdle

\* lines 245-247: step 1, get_similar_tickets on the query
FindSimilarTickets ==
    /\ pc = "analyze_ticket"
    /\ \E n \in 0..MaxResults :
          \E ds \in {d \in [1..n -> 0..MaxDistQ] :
                        \A i \in 1..(n - 1) : d[i] <= d[i + 1]} :
             similar_tickets' = SimilarOf(ds)
    /\ pc' = "call_claude"
    /\ UNCHANGED <<raised, rankVars, indexVars, incidentVars, tableVars,
                   splitterVars, loadVars, processVars, embedVars,
                   databaseVars, claude_response, api_failed, analysis,
                   mainVars>>

\* lines 249-255 with lines 205-225: the API call returns Claude's text
CallClaude ==
    /\ pc = "call_claude"
    /\ \E text \in ClaudeTexts : claude_response' = <<text>>
    /\ pc' = "parse"
    /\ UNCHANGED <<raised, rankVars, indexVars, incidentVars, tableVars,
                   splitterVars, loadVars, processVars, embedVars,
                   databaseVars, similar_tickets, api_failed, analysis,
                   mainVars>>

\* lines 249-255 with lines 227-230: the import or the API call raises and
\* call_claude returns its error string
CallClaudeFails ==
    /\ pc = "call_claude"
    /\ \E message_is_plain \in BOOLEAN :
          claude_response' = <<ErrorResponse(message_is_plain)>>
    /\ api_failed' = TRUE
    /\ pc' = "parse"
    /\ UNCHANGED <<raised, rankVars, indexVars, incidentVars, tableVars,
                   splitterVars, loadVars, processVars, embedVars,
                   databaseVars, similar_tickets, analysis, mainVars>>

\* lines 257-272: json.loads gives a dict and the analysis is made of it
StructureResults ==
    /\ pc = "parse"
    /\ claude_response[1].kind = "object"
    /\ analysis' = <<AnalysisOf(claude_response[1].data, similar_tickets)>>
    /\ pc' = "returned"
    /\ UNCHANGED <<raised, rankVars, indexVars, incidentVars, tableVars,
                   splitterVars, loadVars, processVars, embedVars,
                   databaseVars, similar_tickets, claude_response,
                   api_failed, mainVars>>

\* lines 257-260: json.loads gives a value that is not a dict, and
\* analysis_data.get raises AttributeError, which line 274 does not catch
StructureResultsRaises ==
    /\ pc = "parse"
    /\ claude_response[1].kind = "list"
    /\ raised' = "AttributeError"
    /\ pc' = "failed"
    /\ UNCHANGED <<rankVars, indexVars, incidentVars, tableVars,
                   splitterVars, loadVars, processVars, embedVars,
                   databaseVars, analyserVars, mainVars>>

\* lines 274-291: json.loads raises JSONDecodeError and the fallback
\* analysis is returned
ReturnFallback ==
    /\ pc = "parse"
    /\ claude_response[1].kind = "text"
    /\ analysis' = <<FallbackAnalysis(similar_tickets)>>
    /\ pc' = "returned"
    /\ UNCHANGED <<raised, rankVars, indexVars, incidentVars, tableVars,
                   splitterVars, loadVars, processVars, embedVars,
                   databaseVars, similar_tickets, claude_response,
                   api_failed, mainVars>>

AnalyseNext ==
    \/ FindSimilarTickets
    \/ CallClaude
    \/ CallClaudeFails
    \/ StructureResults
    \/ StructureResultsRaises
    \/ ReturnFallback

SpecAnalyse == AnalyseInit /\ [][AnalyseNext]_vars

----------------------------------------------------------------------------
(* Claims about analyze_ticket (SpecAnalyse) *)

\* C29: analyze_ticket returns a TicketAnalysis for every response string
\* that call_claude can return: a response that is not valid JSON gives the
\* fallback analysis (category "Analysis Error", escalation_required true,
\* confidence_score 0.3), a failed API call is not reported as a successful
\* non-escalated analysis, and the returned similar_tickets list has at
\* most 3 entries.
C29_EveryResponseAnalysed ==
    /\ raised = NoError
    /\ pc # "failed"
    /\ analysis # <<>> =>
          /\ Len(analysis[1].similar_tickets) <= 3
          /\ claude_response[1].kind = "text" =>
                 /\ analysis[1].category = "Analysis Error"
                 /\ analysis[1].escalation_required
                 /\ analysis[1].confidence_score = 3
          /\ api_failed =>
                 (analysis[1].category = "Analysis Error"
                     \/ analysis[1].escalation_required)

----------------------------------------------------------------------------
(* retrieval.py lines 166-196: the main flow, on what the indexing script  *)
(* left at save_path                                                       *)

\* lines 184-185: ChatAnthropic(...) returns
InitializeLLM ==
    /\ pc = "explain"
    /\ llm = <<>>
    /\ llm' = <<"ChatAnthropic">>
    /\ steps' = Append(steps, "llm")
    /\ UNCHANGED <<pc, raised, rankVars, indexVars, incidentVars, tableVars,
                   splitterVars, loadVars, processVars, embedVars,
                   databaseVars, analyserVars>>

\* lines 184-190: ChatAnthropic(...) raises; the message is printed and the
\* main flow exits
InitializeLLMFails ==
    /\ pc = "explain"
    /\ llm = <<>>
    /\ pc' = "exit"
    /\ steps' = Append(steps, "llm")
    /\ UNCHANGED <<raised, rankVars, indexVars, incidentVars, tableVars,
                   splitterVars, loadVars, processVars, embedVars,
                   databaseVars, analyserVars, llm>>

MainNext ==
    \/ CreateFaissVectorStore
    \/ CreateFaissVectorStoreFails
    \/ LoadFaissVectorStore
    \/ LoadFaissVectorStoreFails
    \/ ExitWithoutStore
    \/ FindTopMatches
    \/ GroupAndRank
    \/ InitializeLLM
    \/ InitializeLLMFails
    \/ GenerateExplanations
    \/ GenerateExplanationsFails
    \/ DisplayResults

SpecMain == ScriptsInit /\ [][MainNext]_vars

----------------------------------------------------------------------------
(* Claims about the main flow of retrieval.py (SpecMain) *)

MainSteps == <<"load", "query", "rank", "llm", "explanation", "display">>

IsPrefix(s, t) ==
    /\ Len(s) <= Len(t)
    /\ \A i \in 1..Len(s) : s[i] = t[i]

Ran(step) == \E i \in 1..Len(steps) : steps[i] = step

LoadFailed == faiss_db # <<>> /\ ~faiss_db[1].exists

\* C30: in the retrieval main flow the steps run in the order load, query,
\* rank, LLM initialisation, explanation, display; when the index load
\* fails no query is issued and no later step runs; and every profile that
\* display_results shows (the top 10) has had its explanation set by
\* generate_explanations before it is displayed.
C30_MainFlowInOrder ==
    /\ IsPrefix(steps, MainSteps)
    /\ LoadFailed => steps = <<"load">> /\ query = NoQuery
    /\ Ran("display") =>
          LET top_10 == Take(ranked_profiles, TopN)
          IN  /\ Ran("explanation")
              /\ raised = NoError
              /\ \A i \in 1..Len(top_10) : top_10[i].explanation # NoKey
              /\ top_10 # <<>> => displayed = TableOf(top_10)

\* the whole flow has run and two profiles are shown
C30_Witness ==
    /\ steps = MainSteps
    /\ pc = "done"
    /\ Len(displayed) = 2
    /\ \A i \in 1..2 : displayed[i][3] = "text"

====
